---- MODULE Spec2Model ----
(***************************************************************************)
(* A model of the orc colony simulation: the tile world (world.rs), the    *)
(* A* path finder (pathfinding.rs), the animals (animal.rs), the orcs      *)
(* (orc.rs) and the tick orchestrator (app.rs).                            *)
(*                                                                         *)
(* Positions are pairs <<x, y>>.  The f32 needs of an orc are kept in      *)
(* tenths (hunger 20.0 is 200): every rate and threshold of the source is  *)
(* a multiple of 0.1, so the tenths are integers.                          *)
(***************************************************************************)
EXTENDS Integers, Sequences, FiniteSets, TLC

(***************************************************************************)
(* Bounds of the model.  The source's map is 300 x 150 and its search cap  *)
(* is 5000; the model keeps the code and shrinks the numbers.              *)
(***************************************************************************)
MAP_WIDTH == 5

MAP_HEIGHT == 5

max_search == 6

MaxObstacles == 3

\* The runs start at tick StartTick and stop at tick MaxTick.
StartTick == 296

MaxTick == 300

\* drop_food is not run while MaxFood tiles of Food lie around.
MaxFood == 1

\* The orcs spawn_clan has placed when a run of the spawn loop starts.
Settled == 3

(***************************************************************************)
(* Stands for usize::MAX in g_cost: larger than the cost of any path.      *)
(***************************************************************************)
USIZE_MAX == 2147483647

VARIABLES
    tiles,            \* World::tiles, a function from positions to Terrain
    food_stockpile,   \* World::food_stockpile
    regrowth_timers,  \* World::regrowth_timers, a sequence of <<x, y, due>>
    orcs,             \* App::orcs, a sequence of orc records
    animals,          \* App::animals, a sequence of animal records
    event_log,        \* EventLog::events, a sequence of <<tick, message>>
    tick,             \* App::tick
    paused,           \* App::paused
    cursor,           \* <<App::cursor_x, App::cursor_y>>
    selected_orc,     \* App::selected_orc, NoIndex for None
    pc,               \* where App::tick stands: "idle" between two ticks
    idx,              \* the loop index of App::tick (0-based)
    orc_positions,    \* the local orc_positions of App::tick
    fp                \* the running find_path call: its arguments and locals

pathVars == <<fp>>

worldVars == <<tiles, food_stockpile, regrowth_timers>>

uiVars == <<paused, cursor, selected_orc>>

tickVars == <<pc, idx, orc_positions>>

appVars ==
    <<food_stockpile, regrowth_timers, orcs, animals, event_log, tick, paused,
      cursor, selected_orc, pc, idx, orc_positions>>

vars ==
    <<tiles, food_stockpile, regrowth_timers, orcs, animals, event_log, tick,
      paused, cursor, selected_orc, pc, idx, orc_positions, fp>>

(***************************************************************************)
(* world.rs: terrain and the grid                                          *)
(***************************************************************************)
Terrain ==
    {"Grass", "Tree", "Rock", "Water", "Campfire", "Food", "Bush",
     "DepletedBush", "MeatRack"}

Pos == (0 .. MAP_WIDTH - 1) \X (0 .. MAP_HEIGHT - 1)

walkable(t) == t \notin {"Rock", "Water"}

is_walkable(tl, x, y) ==
    IF x >= MAP_WIDTH \/ y >= MAP_HEIGHT THEN FALSE ELSE walkable(tl[<<x, y>>])

abs_diff(a, b) == IF a >= b THEN a - b ELSE b - a

Min(a, b) == IF a <= b THEN a ELSE b

Max(a, b) == IF a >= b THEN a ELSE b

campfire_pos == <<MAP_WIDTH \div 2, MAP_HEIGHT \div 2>>

RackPos == <<campfire_pos[1] + 2, campfire_pos[2] + 2>>

\* Option::None for a position and for an index or a tick.
NoPos == <<-1, -1>>

NoIndex == -1

clamp(v, lo, hi) == IF v < lo THEN lo ELSE IF v > hi THEN hi ELSE v

signum(v) == IF v > 0 THEN 1 ELSE IF v < 0 THEN -1 ELSE 0

manhattan(ax, ay, bx, by) == abs_diff(ax, bx) + abs_diff(ay, by)

\* The place of a tile in the scans "for y .. for x ..".
ScanRank(p) == p[2] * MAP_WIDTH + p[1]

find_nearest(tl, from_x, from_y, terrain) ==
    LET found == {p \in Pos : tl[p] = terrain}
    IN  IF found = {} THEN NoPos
        ELSE CHOOSE p \in found :
                \A q \in found \ {p} :
                    LET dp == manhattan(from_x, from_y, p[1], p[2])
                        dq == manhattan(from_x, from_y, q[1], q[2])
                    IN  dp < dq \/ (dp = dq /\ ScanRank(p) < ScanRank(q))

WaterNeighbours == <<<<0, 1>>, <<0, -1>>, <<1, 0>>, <<-1, 0>>>>

find_water_adjacent(tl, from_x, from_y) ==
    LET w == find_nearest(tl, from_x, from_y, "Water")
        at(i) == <<clamp(w[1] + WaterNeighbours[i][1], 0, MAP_WIDTH - 1),
                   clamp(w[2] + WaterNeighbours[i][2], 0, MAP_HEIGHT - 1)>>
        ok == {i \in 1 .. 4 : is_walkable(tl, at(i)[1], at(i)[2])}
        dist(i) == manhattan(from_x, from_y, at(i)[1], at(i)[2])
    IN  IF w = NoPos \/ ok = {} THEN NoPos
        ELSE at(CHOOSE i \in ok :
                \A j \in ok \ {i} : dist(i) < dist(j) \/ (dist(i) = dist(j) /\ i < j))

meat_rack_pos(tl) ==
    IF RackPos[1] < MAP_WIDTH /\ RackPos[2] < MAP_HEIGHT /\ tl[RackPos] = "MeatRack"
    THEN RackPos
    ELSE NoPos

REGROW_DELAY == 80

\* deplete_bush without the timer it pushes.
deplete_bush_untimed(tl, timers, x, y, current_tick) ==
    IF tl[<<x, y>>] = "Bush"
    THEN <<[tl EXCEPT ![<<x, y>>] = "DepletedBush"], timers>>
    ELSE <<tl, timers>>

\* deplete_bush gives the new tiles and timers as a pair.
deplete_bush(tl, timers, x, y, current_tick) ==
    IF tl[<<x, y>>] = "Bush"
    THEN <<[tl EXCEPT ![<<x, y>>] = "DepletedBush"],
           Append(timers, <<x, y, current_tick + REGROW_DELAY>>)>>
    ELSE <<tl, timers>>

\* The comparison of tick_regrowth made strict.
timer_due_late(current_tick, regrow_at) == current_tick > regrow_at

timer_due(current_tick, regrow_at) == current_tick >= regrow_at

RECURSIVE regrow(_, _, _)
regrow(tl, timers, i) ==
    IF i > Len(timers) THEN tl
    ELSE LET p == <<timers[i][1], timers[i][2]>>
         IN  regrow(IF tl[p] = "DepletedBush" THEN [tl EXCEPT ![p] = "Bush"] ELSE tl,
                    timers, i + 1)

\* tick_regrowth gives the new tiles and timers as a pair.
tick_regrowth(tl, timers, current_tick) ==
    LET due(t) == timer_due(current_tick, t[3])
        kept(t) == ~due(t)
    IN  <<regrow(tl, SelectSeq(timers, due), 1), SelectSeq(timers, kept)>>

(***************************************************************************)
(* event.rs                                                                *)
(***************************************************************************)
max_events == 100

log(events, at, message) ==
    LET pushed == Append(events, <<at, message>>)
    IN  IF Len(pushed) > max_events THEN Tail(pushed) ELSE pushed

(***************************************************************************)
(* pathfinding.rs                                                          *)
(***************************************************************************)
heuristic(x, y, gx, gy) ==
    LET dx == abs_diff(x, gx)
        dy == abs_diff(y, gy)
        diag == Min(dx, dy)
        straight == Max(dx, dy) - diag
    IN  diag * 14 + straight * 10

Directions ==
    {<<-1, -1>>, <<-1, 0>>, <<-1, 1>>, <<0, -1>>, <<0, 1>>, <<1, -1>>,
     <<1, 0>>, <<1, 1>>}

move_cost(dx, dy) == IF dx # 0 /\ dy # 0 THEN 14 ELSE 10

\* A Tree let through only when allow_tree is set.
passable_tree_by_flag(tl, nx, ny, allow_tree) ==
    is_walkable(tl, nx, ny) /\ (tl[<<nx, ny>>] = "Tree" => allow_tree)

passable(tl, nx, ny, allow_tree) ==
    is_walkable(tl, nx, ny) \/ (allow_tree /\ tl[<<nx, ny>>] = "Tree")

RECURSIVE reconstruct_walk(_, _, _, _)
reconstruct_walk(came_from, s, c, acc) ==
    IF c = s THEN acc
    ELSE reconstruct_walk(came_from, s, came_from[c], <<c>> \o acc)

\* reconstruct_path with the start pushed as well.
reconstruct_path_with_start(came_from, sx, sy, gx, gy) ==
    <<<<sx, sy>>>> \o reconstruct_walk(came_from, <<sx, sy>>, <<gx, gy>>, <<>>)

reconstruct_path(came_from, sx, sy, gx, gy) ==
    reconstruct_walk(came_from, <<sx, sy>>, <<gx, gy>>, <<>>)

NoCall ==
    [pc |-> "idle", sx |-> 0, sy |-> 0, gx |-> 0, gy |-> 0,
     allow_tree |-> FALSE, visited |-> {}, came_from |-> <<>>,
     g_cost |-> <<>>, open |-> {}, searched |-> 0, result |-> "-",
     path |-> <<>>]

\* Lines 38-57: the early return for start = goal, and the set-up of the search.
find_path_enter(sx, sy, gx, gy, allow_tree) ==
    LET args ==
            [NoCall EXCEPT !.sx = sx, !.sy = sy, !.gx = gx, !.gy = gy,
                           !.allow_tree = allow_tree]
    IN  IF sx = gx /\ sy = gy
        THEN [args EXCEPT !.pc = "done", !.result = "Some", !.path = <<>>]
        ELSE [args EXCEPT
                !.pc = "loop",
                !.visited = {},
                !.came_from = [p \in Pos |-> <<0, 0>>],
                !.g_cost = [p \in Pos |-> IF p = <<sx, sy>> THEN 0 ELSE USIZE_MAX],
                !.open = {[x |-> sx, y |-> sy, cost |-> 0,
                           priority |-> heuristic(sx, sy, gx, gy)]},
                !.searched = 0]

\* The goal held to the walkability test like every other tile.
is_goal_never(st, nx, ny) == FALSE

\* Line 95: "let is_goal = nx == gx && ny == gy".
is_goal(st, nx, ny) == nx = st.gx /\ ny = st.gy

\* The neighbours of current that lines 80-108 let through, with their new cost.
Improved(tl, st, current) ==
    LET inside ==
            {d \in Directions :
                /\ current.x + d[1] >= 0
                /\ current.y + d[2] >= 0
                /\ current.x + d[1] < MAP_WIDTH
                /\ current.y + d[2] < MAP_HEIGHT}
        open_dirs ==
            {d \in inside :
                LET nx == current.x + d[1]
                    ny == current.y + d[2]
                IN  /\ <<nx, ny>> \notin st.visited
                    /\ \/ is_goal(st, nx, ny)
                       \/ passable(tl, nx, ny, st.allow_tree)
                    /\ current.cost + move_cost(d[1], d[2]) < st.g_cost[<<nx, ny>>]}
    IN  {[pos |-> <<current.x + d[1], current.y + d[2]>>,
          cost |-> current.cost + move_cost(d[1], d[2])] : d \in open_dirs}

\* The cap compared with the wrong variable: it never triggers.
search_exceeded_never(searched) == FALSE

search_exceeded(searched) == searched > max_search

\* One iteration of the while loop (lines 59-119) with `current` popped.
find_path_iter(tl, st, current) ==
    LET rest == st.open \ {current}
        here == <<current.x, current.y>>
    IN  IF current.x = st.gx /\ current.y = st.gy
        THEN [st EXCEPT !.pc = "done", !.open = rest, !.result = "Some",
                        !.path = reconstruct_path(st.came_from, st.sx, st.sy,
                                                  st.gx, st.gy)]
        ELSE IF here \in st.visited
        THEN [st EXCEPT !.open = rest]
        ELSE IF search_exceeded(st.searched + 1)
        THEN [st EXCEPT !.pc = "done", !.open = rest,
                        !.visited = @ \cup {here},
                        !.searched = @ + 1, !.result = "None"]
        ELSE LET imp == Improved(tl, st, current)
             IN  [st EXCEPT
                    !.open = rest \cup
                        {[x |-> n.pos[1], y |-> n.pos[2], cost |-> n.cost,
                          priority |-> n.cost + heuristic(n.pos[1], n.pos[2],
                                                          st.gx, st.gy)] :
                            n \in imp},
                    !.visited = @ \cup {here},
                    !.searched = @ + 1,
                    !.g_cost = [n \in {m.pos : m \in imp} |->
                                    current.cost + move_cost(n[1] - current.x,
                                                             n[2] - current.y)]
                               @@ st.g_cost,
                    !.came_from = [n \in {m.pos : m \in imp} |-> here]
                                  @@ st.came_from]

\* Line 121: the heap is empty.
find_path_exhausted(st) == [st EXCEPT !.pc = "done", !.result = "None"]

\* Node::cmp without the reversal: the heap pops a node of greatest priority.
PopCandidates_maxheap(st) ==
    {n \in st.open : \A m \in st.open : n.priority >= m.priority}

\* Node::cmp reverses the order of the priorities, so BinaryHeap::pop returns a
\* node of least priority; which one among equals is left to the heap's
\* layout, so every one of them is a possible pop.
PopCandidates(st) ==
    {n \in st.open : \A m \in st.open : n.priority <= m.priority}

\* Every outcome of find_path from the state st, over the heap's tie-breaks.
RECURSIVE find_path_run(_, _)
find_path_run(tl, st) ==
    IF st.pc = "done" THEN {st}
    ELSE IF st.open = {} THEN {find_path_exhausted(st)}
    ELSE UNION {find_path_run(tl, find_path_iter(tl, st, current)) :
                    current \in PopCandidates(st)}

\* The possible results of find_path: found is FALSE for None.
find_path(tl, sx, sy, gx, gy, allow_tree) ==
    {[found |-> r.result = "Some", path |-> r.path] :
        r \in find_path_run(tl, find_path_enter(sx, sy, gx, gy, allow_tree))}

(***************************************************************************)
(* animal.rs                                                               *)
(***************************************************************************)
AnimalKind == {"Deer", "Boar"}

new_animal(kind, x, y) == [kind |-> kind, x |-> x, y |-> y, alive |-> TRUE]

FLEE_RADIUS == 5

\* orcs.iter().find(..): the index of the first orc of the snapshot in range,
\* 0 when there is none.
first_orc_in_range(a, snapshot) ==
    LET near == {i \in 1 .. Len(snapshot) :
                    manhattan(a.x, a.y, snapshot[i][1], snapshot[i][2]) <= FLEE_RADIUS}
    IN  IF near = {} THEN 0 ELSE CHOOSE i \in near : \A j \in near : i <= j

animal_step(a, tl, dx, dy) ==
    LET nx == clamp(a.x + dx, 0, MAP_WIDTH - 1)
        ny == clamp(a.y + dy, 0, MAP_HEIGHT - 1)
    IN  IF is_walkable(tl, nx, ny) THEN [a EXCEPT !.x = nx, !.y = ny] ELSE a

\* Animal::update with a flee step of one tile.
animal_update_one_tile(a, tl, snapshot) ==
    LET i == first_orc_in_range(a, snapshot)
    IN  IF ~a.alive THEN {a}
        ELSE IF a.kind = "Deer" /\ i # 0
        THEN {animal_step(a, tl, signum(a.x - snapshot[i][1]),
                                 signum(a.y - snapshot[i][2]))}
        ELSE {a} \cup {animal_step(a, tl, d[1], d[2]) : d \in (-1 .. 1) \X (-1 .. 1)}

\* Animal::update: the set of animals the random draws can leave.
animal_update(a, tl, snapshot) ==
    LET i == first_orc_in_range(a, snapshot)
    IN  IF ~a.alive THEN {a}
        ELSE IF a.kind = "Deer" /\ i # 0
        THEN {animal_step(a, tl, signum(a.x - snapshot[i][1]) * 2,
                                 signum(a.y - snapshot[i][2]) * 2)}
        ELSE {a} \cup {animal_step(a, tl, d[1], d[2]) : d \in (-1 .. 1) \X (-1 .. 1)}

\* Animal::kill gives the dead animal, the new tiles and the new log.
kill(a, tl, lg, at) ==
    <<[a EXCEPT !.alive = FALSE],
      IF tl[<<a.x, a.y>>] = "Grass" THEN [tl EXCEPT ![<<a.x, a.y>>] = "Food"] ELSE tl,
      log(lg, at, "was hunted")>>

RESPAWN_INTERVAL == 200

RESPAWN_FLOOR == 12

\* The margin of 5 tiles the draws keep from the edges of the map, and the
\* distance of 20 they must exceed from the campfire, in proportion to the map.
RESPAWN_MARGIN == 1

RESPAWN_DISTANCE == 1

MAX_RESPAWN == 3

\* The tiles the rejection sampling of try_respawn draws from, and those it accepts.
RespawnDraws ==
    {p \in Pos : /\ p[1] >= RESPAWN_MARGIN /\ p[1] < MAP_WIDTH - RESPAWN_MARGIN
                 /\ p[2] >= RESPAWN_MARGIN /\ p[2] < MAP_HEIGHT - RESPAWN_MARGIN}

RespawnTiles(tl) ==
    {p \in RespawnDraws :
        /\ manhattan(campfire_pos[1], campfire_pos[2], p[1], p[2]) > RESPAWN_DISTANCE
        /\ is_walkable(tl, p[1], p[2])}

\* One individual of try_respawn: pushed on an accepted tile, or skipped when
\* every attempt drew a rejected tile.
respawn_one(an, tl) ==
    {Append(an, new_animal(k, p[1], p[2])) : k \in AnimalKind, p \in RespawnTiles(tl)}
    \cup (IF RespawnDraws \ RespawnTiles(tl) # {} \/ RespawnDraws = {} THEN {an} ELSE {})

RECURSIVE respawn_many(_, _, _)
respawn_many(an, tl, n) ==
    IF n = 0 THEN {an}
    ELSE UNION {respawn_many(an2, tl, n - 1) : an2 \in respawn_one(an, tl)}

\* The population test letting a herd at the floor grow.
returns_unchanged_above_floor(an, at) ==
    \/ at % RESPAWN_INTERVAL # 0
    \/ Cardinality({i \in 1 .. Len(an) : an[i].alive}) > RESPAWN_FLOOR

\* The two early returns of try_respawn (lines 137-144).
returns_unchanged(an, at) ==
    \/ at % RESPAWN_INTERVAL # 0
    \/ Cardinality({i \in 1 .. Len(an) : an[i].alive}) >= RESPAWN_FLOOR

try_respawn(an, tl, at) ==
    IF returns_unchanged(an, at) THEN {an}
    ELSE UNION {respawn_many(an, tl, n) : n \in 1 .. MAX_RESPAWN}

(***************************************************************************)
(* orc.rs.  An operation that draws random numbers, or that calls          *)
(* find_path, is the set of its possible results.  The operations of       *)
(* Orc::update work on a context c: the orc o, the tiles tl, the stockpile *)
(* sp, the regrowth timers tm, the animals an and the event log lg.        *)
(***************************************************************************)
Act(kind, x, y, reason, target_idx) ==
    [kind |-> kind, x |-> x, y |-> y, reason |-> reason, target_idx |-> target_idx]

Idle == Act("Idle", 0, 0, "", 0)

GoingTo(x, y, reason) == Act("GoingTo", x, y, reason, 0)

Eating == Act("Eating", 0, 0, "", 0)

Sleeping == Act("Sleeping", 0, 0, "", 0)

Drinking == Act("Drinking", 0, 0, "", 0)

Hunting(target_idx) == Act("Hunting", 0, 0, "", target_idx)

CarryingMeat == Act("CarryingMeat", 0, 0, "", 0)

\* Option::None for the result of find_food_target.
NoTarget == Act("None", 0, 0, "", 0)

new_orc(name, x, y) ==
    [name |-> name, x |-> x, y |-> y, hunger |-> 200, energy |-> 800,
     thirst |-> 100, health |-> 1000, alive |-> TRUE, death_tick |-> NoIndex,
     activity |-> Idle, idle_ticks |-> 0, carrying_food |-> FALSE,
     path |-> <<>>, path_step |-> 0]

\* .clamp(0.0, 100.0) left out.
clamp_need_missing(v) == v

\* .clamp(0.0, 100.0), in tenths.
clamp_need(v) == clamp(v, 0, 1000)

health_delta(hunger, thirst, energy) ==
    (IF hunger >= 950 THEN -20 ELSE 0)
    + (IF thirst >= 950 THEN -30 ELSE 0)
    + (IF energy <= 50 THEN -10 ELSE 0)
    + (IF hunger < 500 /\ thirst < 500 /\ energy > 300 THEN 5 ELSE 0)

\* Lines 145-176 of Orc::update.
update_needs(o, is_night) ==
    LET hunger == clamp_need(o.hunger + (IF is_night THEN 3 ELSE 5))
        thirst == clamp_need(o.thirst + 6)
        energy ==
            IF o.activity.kind = "Sleeping" THEN clamp_need(o.energy + 30)
            ELSE clamp_need(o.energy - (IF is_night THEN 8 ELSE 4))
    IN  [o EXCEPT !.hunger = hunger, !.thirst = thirst, !.energy = energy,
                  !.health = clamp_need(o.health + health_delta(hunger, thirst, energy))]

plan_path(o, tx, ty, tl, allow_tree) ==
    {[o EXCEPT !.path = IF r.found THEN r.path ELSE <<>>, !.path_step = 0] :
        r \in find_path(tl, o.x, o.y, tx, ty, allow_tree)}

\* follow_path returns true exactly when can_follow holds, and then moves.
can_follow(o) == o.path_step < Len(o.path)

\* follow_path taking the orc to the end of its path at once.
follow_path_to_goal(o) ==
    [o EXCEPT !.x = o.path[Len(o.path)][1], !.y = o.path[Len(o.path)][2],
              !.path_step = Len(o.path)]

follow_path(o) ==
    [o EXCEPT !.x = o.path[o.path_step + 1][1], !.y = o.path[o.path_step + 1][2],
              !.path_step = @ + 1]

go_to(o, x, y, reason, tl) ==
    {[p EXCEPT !.activity = GoingTo(x, y, reason)] :
        p \in plan_path(o, x, y, tl, tl[<<x, y>>] \in {"Tree", "Bush"})}

\* The greedy step taken onto any tile of the grid.
greedy_passable_always(tl, nx, ny) == TRUE

\* "if world.is_walkable(nx, ny) || world.get(nx, ny) == Terrain::Tree" (line 468).
greedy_passable(tl, nx, ny) == is_walkable(tl, nx, ny) \/ tl[<<nx, ny>>] = "Tree"

RECURSIVE greedy_try(_, _, _, _)
greedy_try(o, candidates, tl, i) ==
    IF i > Len(candidates) THEN o
    ELSE LET nx == clamp(o.x + candidates[i][1], 0, MAP_WIDTH - 1)
             ny == clamp(o.y + candidates[i][2], 0, MAP_HEIGHT - 1)
         IN  IF candidates[i] = <<0, 0>> THEN greedy_try(o, candidates, tl, i + 1)
             ELSE IF greedy_passable(tl, nx, ny)
             THEN [o EXCEPT !.x = nx, !.y = ny]
             ELSE greedy_try(o, candidates, tl, i + 1)

move_toward_greedy(o, tx, ty, tl) ==
    LET dx == signum(tx - o.x)
        dy == signum(ty - o.y)
    IN  {greedy_try(o, <<<<dx, dy>>, <<dx, 0>>, <<0, dy>>>>, tl, 1),
         greedy_try(o, <<<<dx, 0>>, <<0, dy>>, <<dx, dy>>>>, tl, 1)}

\* The orc stands still when its path gives no step.
follow_or_stay(o, tx, ty, tl) == IF can_follow(o) THEN {follow_path(o)} ELSE {o}

\* "if !self.follow_path() { self.move_toward_greedy(..) }"
follow_or_greedy(o, tx, ty, tl) ==
    IF can_follow(o) THEN {follow_path(o)} ELSE move_toward_greedy(o, tx, ty, tl)

is_adjacent_to_water(o, tl) ==
    \E i \in 1 .. 4 :
        tl[<<clamp(o.x + WaterNeighbours[i][1], 0, MAP_WIDTH - 1),
             clamp(o.y + WaterNeighbours[i][2], 0, MAP_HEIGHT - 1)>>] = "Water"

SPOT_RANGE == 2

\* find_spot_near: a walkable draw, or (cx, cy) after 20 draws that are not.
find_spot_near(cx, cy, tl) ==
    LET draws == {<<clamp(cx + a, 0, MAP_WIDTH - 1), clamp(cy + b, 0, MAP_HEIGHT - 1)>> :
                    a \in -SPOT_RANGE .. SPOT_RANGE, b \in -SPOT_RANGE .. SPOT_RANGE}
        good == {p \in draws : is_walkable(tl, p[1], p[2])}
    IN  good \cup (IF good # draws THEN {<<cx, cy>>} ELSE {})

\* The "< 15" of find_food_target, in proportion to the map.
HUNT_RANGE == 6

\* The animal is hunted up to the range and at it.
prefers_hunt_at_range(best, animal_dist) == best = NoPos \/ animal_dist <= HUNT_RANGE

\* "if best.is_none() || animal_dist < 15" (line 431).
prefers_hunt(best, animal_dist) == best = NoPos \/ animal_dist < HUNT_RANGE

find_food_target(o, tl, sp, an) ==
    LET bush == find_nearest(tl, o.x, o.y, "Bush")
        food == find_nearest(tl, o.x, o.y, "Food")
        tree == find_nearest(tl, o.x, o.y, "Tree")
        targets == SelectSeq(<<bush, food, tree>>, LAMBDA t : t # NoPos)
        dist(i) == manhattan(o.x, o.y, targets[i][1], targets[i][2])
        best ==
            IF targets = <<>> THEN NoPos
            ELSE targets[CHOOSE i \in 1 .. Len(targets) :
                    \A j \in 1 .. Len(targets) :
                        dist(i) < dist(j) \/ (dist(i) = dist(j) /\ i <= j)]
        living == {i \in 1 .. Len(an) : an[i].alive}
        adist(i) == manhattan(o.x, o.y, an[i].x, an[i].y)
        nearest ==
            IF living = {} THEN 0
            ELSE CHOOSE i \in living :
                    \A j \in living : adist(i) < adist(j) \/ (adist(i) = adist(j) /\ i <= j)
    IN  IF sp > 0 /\ meat_rack_pos(tl) # NoPos
        THEN GoingTo(meat_rack_pos(tl)[1], meat_rack_pos(tl)[2], "Going to stockpile")
        ELSE IF nearest # 0 /\ prefers_hunt(best, adist(nearest))
        THEN Hunting(nearest - 1)
        ELSE IF best # NoPos THEN GoingTo(best[1], best[2], "Looking for food")
        ELSE NoTarget

set_activity_with_path(o, activity, tl) ==
    IF activity.kind = "GoingTo"
    THEN {[p EXCEPT !.activity = activity] :
            p \in plan_path(o, activity.x, activity.y, tl,
                            tl[<<activity.x, activity.y>>] \in {"Tree", "Bush"})}
    ELSE IF activity.kind = "Hunting"
    THEN {[o EXCEPT !.path = <<>>, !.path_step = 0, !.activity = activity]}
    ELSE {[o EXCEPT !.activity = activity]}

\* The MeatRack arm of arrive_at_destination without the stockpile test.
takes_from_rack_unchecked(terrain, sp) == terrain = "MeatRack"

\* The stockpile test of line 288 off by one.
takes_from_rack_at_zero(terrain, sp) == terrain = "MeatRack" /\ sp >= 0

\* Line 288 of arrive_at_destination.
takes_from_rack(terrain, sp) == terrain = "MeatRack" /\ sp > 0

arrive_at_destination(c, at) ==
    LET o == c.o
        terrain == c.tl[<<o.x, o.y>>]
        depleted == deplete_bush(c.tl, c.tm, o.x, o.y, at)
    IN  IF terrain = "Bush"
        THEN [c EXCEPT !.lg = log(c.lg, at, "found berries and starts eating"),
                       !.tl = depleted[1], !.tm = depleted[2],
                       !.o.activity = Eating]
        ELSE IF terrain = "Food"
        THEN [c EXCEPT !.lg = log(c.lg, at, "found food and starts eating"),
                       !.tl = [c.tl EXCEPT ![<<o.x, o.y>>] = "Grass"],
                       !.o.activity = Eating]
        ELSE IF terrain = "Tree"
        THEN [c EXCEPT !.lg = log(c.lg, at, "forages from a tree"),
                       !.o.activity = Eating]
        ELSE IF takes_from_rack(terrain, c.sp)
        THEN [c EXCEPT !.sp = @ - 1,
                       !.lg = log(c.lg, at, "takes food from stockpile"),
                       !.o.activity = Eating]
        ELSE IF is_adjacent_to_water(o, c.tl)
        THEN [c EXCEPT !.lg = log(c.lg, at, "drinks water"),
                       !.o.activity = Drinking]
        ELSE [c EXCEPT !.lg = log(c.lg, at, "lies down to sleep by the fire"),
                       !.o.activity = Sleeping]

WANDER_IDLE_TICKS == 3

WANDER_RANGE == 4

WANDER_BOX == 30

\* Priorities 2 to 6 of decide_action (lines 334-383).
decide_routine(c, at) ==
    LET o == c.o
        water == find_water_adjacent(c.tl, o.x, o.y)
        target == find_food_target(o, c.tl, c.sp, c.an)
        rack == meat_rack_pos(c.tl)
        carrying == [o EXCEPT !.activity = CarryingMeat]
        rested == [o EXCEPT !.idle_ticks = 0]
        wander(a, b) ==
            <<clamp(clamp(o.x + a, campfire_pos[1] - WANDER_BOX,
                          campfire_pos[1] + WANDER_BOX), 0, MAP_WIDTH - 1),
              clamp(clamp(o.y + b, campfire_pos[2] - WANDER_BOX,
                          campfire_pos[2] + WANDER_BOX), 0, MAP_HEIGHT - 1)>>
        wanders == {wander(a, b) : a \in -WANDER_RANGE .. WANDER_RANGE,
                                   b \in -WANDER_RANGE .. WANDER_RANGE}
    IN  IF o.thirst > 600 /\ water # NoPos
        THEN {[c EXCEPT !.lg = log(c.lg, at, "is thirsty, heading to water"), !.o = p] :
                p \in go_to(o, water[1], water[2], "Going to drink", c.tl)}
        ELSE IF o.hunger > 700 /\ target # NoTarget
        THEN {[c EXCEPT !.lg = log(c.lg, at, "is hungry, looking for food"), !.o = p] :
                p \in set_activity_with_path(o, target, c.tl)}
        ELSE IF o.energy < 200
        THEN UNION {{[c EXCEPT !.lg = log(c.lg, at, "is exhausted, heading to campfire"),
                               !.o = p] :
                        p \in go_to(o, spot[1], spot[2], "Going to sleep", c.tl)} :
                    spot \in find_spot_near(campfire_pos[1], campfire_pos[2], c.tl)}
        ELSE IF o.carrying_food
        THEN {[c EXCEPT !.o = p] :
                p \in IF rack # NoPos
                      THEN plan_path(carrying, rack[1], rack[2], c.tl, FALSE)
                      ELSE {carrying}}
        ELSE IF o.idle_ticks + 1 > WANDER_IDLE_TICKS
        THEN UNION {IF is_walkable(c.tl, w[1], w[2])
                    THEN {[c EXCEPT !.o = p] :
                            p \in go_to(rested, w[1], w[2], "Wandering", c.tl)}
                    ELSE {[c EXCEPT !.o = rested]} :
                    w \in wanders}
        ELSE {[c EXCEPT !.o.idle_ticks = @ + 1]}

\* The thirst test of priority 1 giving way to the hunger of priority 3.
thirst_dominant_unless_hungry(o) ==
    o.thirst > o.hunger /\ o.thirst > 1000 - o.energy /\ ~(o.hunger > 700)

thirst_dominant(o) == o.thirst > o.hunger /\ o.thirst > 1000 - o.energy

\* The rest branch of priority 1 taken whenever the other two set nothing.
rest_selected_always(o) == TRUE

\* Lines 327-332: the else of "thirst dominant" and of "hunger > 100 - energy".
rest_selected(o) == ~thirst_dominant(o) /\ ~(o.hunger > 1000 - o.energy)

\* decide_action (lines 301-384): priority 1, then the routine priorities.
decide_action(c, at) ==
    LET o == c.o
        water == find_water_adjacent(c.tl, o.x, o.y)
        target == find_food_target(o, c.tl, c.sp, c.an)
    IN  IF o.health < 200 /\ thirst_dominant(o) /\ water # NoPos
        THEN {[c EXCEPT !.lg = log(c.lg, at, "desperately needs water!"), !.o = p] :
                p \in go_to(o, water[1], water[2], "Desperate for water", c.tl)}
        ELSE IF o.health < 200 /\ ~thirst_dominant(o) /\ o.hunger > 1000 - o.energy
                /\ target # NoTarget
        THEN {[c EXCEPT !.lg = log(c.lg, at, "desperately needs food!"), !.o = p] :
                p \in set_activity_with_path(o, target, c.tl)}
        ELSE IF o.health < 200 /\ rest_selected(o)
        THEN UNION {{[c EXCEPT !.lg = log(c.lg, at, "desperately needs rest!"), !.o = p] :
                        p \in go_to(o, spot[1], spot[2], "Desperate for sleep", c.tl)} :
                    spot \in find_spot_near(campfire_pos[1], campfire_pos[2], c.tl)}
        ELSE decide_routine(c, at)

\* The target is any animal of the collection, dead or alive.
target_indexed(an, i) == i < Len(an)

\* "if idx < animals.len() && animals[idx].alive" (line 210).
target_alive(an, i) == i < Len(an) /\ an[i + 1].alive

\* The Hunting arm of Orc::update (lines 208-242).
update_hunting(c, at) ==
    LET o == c.o
        i == o.activity.target_idx
    IN  IF target_alive(c.an, i)
        THEN LET a == c.an[i + 1]
                 ap == <<a.x, a.y>>
             IN  IF manhattan(o.x, o.y, a.x, a.y) <= 1
                 THEN LET k == kill(a, c.tl, c.lg, at)
                          killed ==
                            [c EXCEPT !.an = [c.an EXCEPT ![i + 1] = k[1]],
                                      !.tl = k[2],
                                      !.lg = log(k[3], at, "caught an animal")]
                          picked ==
                            IF k[2][ap] = "Food" THEN [k[2] EXCEPT ![ap] = "Grass"]
                            ELSE k[2]
                          carrying ==
                            [o EXCEPT !.carrying_food = TRUE, !.activity = CarryingMeat]
                          rack == meat_rack_pos(picked)
                      IN  IF o.hunger > 500
                          THEN {[killed EXCEPT !.o.activity = Eating]}
                          ELSE {[killed EXCEPT !.tl = picked, !.o = p] :
                                    p \in IF rack # NoPos
                                          THEN plan_path(carrying, rack[1], rack[2],
                                                         picked, FALSE)
                                          ELSE {carrying}}
                 ELSE LET planned ==
                            IF o.path = <<>> \/ o.path_step >= Len(o.path)
                            THEN plan_path(o, a.x, a.y, c.tl, FALSE)
                            ELSE {o}
                      IN  {[c EXCEPT !.o = q] :
                            q \in UNION {follow_or_greedy(p, a.x, a.y, c.tl) :
                                            p \in planned}}
        ELSE {[c EXCEPT !.o.activity = Idle]}

\* The meat is stored only from the tile of the rack itself.
rack_in_reach_on_tile(o, rack) == manhattan(o.x, o.y, rack[1], rack[2]) = 0

\* Lines 245-246: "dist <= 1".
rack_in_reach(o, rack) == manhattan(o.x, o.y, rack[1], rack[2]) <= 1

\* The orc that stored its meat still counted as carrying it.
unloaded_in_name(o) == [o EXCEPT !.activity = Idle]

\* Lines 248 and 250: the meat is off the orc's back and the orc is Idle.
unloaded(o) == [o EXCEPT !.carrying_food = FALSE, !.activity = Idle]

\* The CarryingMeat arm of Orc::update (lines 243-258).
update_carrying(c, at) ==
    LET o == c.o
        rack == meat_rack_pos(c.tl)
    IN  IF rack # NoPos
        THEN IF rack_in_reach(o, rack)
             THEN {[c EXCEPT !.sp = @ + 1,
                             !.o = unloaded(o),
                             !.lg = log(c.lg, at, "stored meat")]}
             ELSE {[c EXCEPT !.o = q] : q \in follow_or_greedy(o, rack[1], rack[2], c.tl)}
        ELSE {[c EXCEPT !.o.carrying_food = FALSE, !.o.activity = Idle]}

\* The sleeper woken only by full energy.
wakes_full(o) == o.energy >= 1000

\* Line 189: "self.energy >= 90.0".
wakes(o) == o.energy >= 900

\* The match on the activity of Orc::update (lines 186-271).
update_activity(c, at) ==
    LET o == c.o
        kind == o.activity.kind
        eaten == clamp_need(o.hunger - 150)
        drunk == clamp_need(o.thirst - 200)
    IN  IF kind = "Sleeping"
        THEN IF wakes(o)
             THEN {[c EXCEPT !.lg = log(c.lg, at, "woke up, feeling rested"),
                             !.o.activity = Idle]}
             ELSE {c}
        ELSE IF kind = "Eating"
        THEN IF eaten <= 100
             THEN {[c EXCEPT !.o.hunger = eaten,
                             !.lg = log(c.lg, at, "finished eating"),
                             !.o.activity = Idle]}
             ELSE {[c EXCEPT !.o.hunger = eaten]}
        ELSE IF kind = "Drinking"
        THEN IF drunk <= 50
             THEN {[c EXCEPT !.o.thirst = drunk,
                             !.lg = log(c.lg, at, "finished drinking"),
                             !.o.activity = Idle]}
             ELSE {[c EXCEPT !.o.thirst = drunk]}
        ELSE IF kind = "Hunting" THEN update_hunting(c, at)
        ELSE IF kind = "CarryingMeat" THEN update_carrying(c, at)
        ELSE IF kind = "GoingTo"
        THEN IF o.x = o.activity.x /\ o.y = o.activity.y
             THEN {arrive_at_destination(c, at)}
             ELSE {[c EXCEPT !.o = q] :
                    q \in follow_or_greedy(o, o.activity.x, o.activity.y, c.tl)}
        ELSE decide_action(c, at)

\* Orc::update without the early return for a dead orc.
skips_update_never(o) == FALSE

\* Lines 141-143: a dead orc is not updated.
skips_update(o) == ~o.alive

\* The orc that has just died goes on to the activity of the tick.
after_death_acts(c, at) == update_activity(c, at)

\* The "return" of the death check (line 183).
after_death(c, at) == {c}

\* The death check passed by an orc whose health is exactly zero.
dies_below_zero(o) == o.health < 0

\* Line 179: "self.health <= 0.0".
dies(o) == o.health <= 0

\* Orc::update (lines 132-272): the contexts it can leave.
orc_update(c, at, is_night) ==
    IF skips_update(c.o) THEN {c}
    ELSE LET o == update_needs(c.o, is_night)
         IN  IF dies(o)
             THEN after_death([c EXCEPT !.o = [o EXCEPT !.alive = FALSE, !.death_tick = at],
                                        !.lg = log(c.lg, at, "has died!")], at)
             ELSE update_activity([c EXCEPT !.o = o], at)

\* The name pool, in the order of the source.
NamePool ==
    <<"Grok", "Thrak", "Murg", "Zug", "Brak", "Gor", "Krag", "Drog", "Narg", "Skul",
      "Gash", "Rok", "Brug", "Thar", "Grub", "Vak", "Snak", "Blud", "Kurz", "Mogz",
      "Thog", "Grim", "Uzk", "Ragz", "Lurk", "Bonk", "Drak", "Gurn", "Tusk", "Mok">>

ORC_NAMES == {NamePool[i] : i \in 1 .. Len(NamePool)}

\* The fallback generator of pick_name: a prefix followed by a suffix.
FallbackNames ==
    {prefix \o suffix :
        prefix \in {"Gr", "Th", "Kr", "Br", "Dr", "Sk", "Zn", "Gl"},
        suffix \in {"ok", "ag", "ug", "ak", "im", "oz", "ur", "ash"}}

\* pick_name drawing from the whole pool.
pick_name_any(existing) == ORC_NAMES

\* pick_name gives the names the draw can give.
pick_name(existing) ==
    IF ORC_NAMES \ existing = {} THEN FallbackNames ELSE ORC_NAMES \ existing

(***************************************************************************)
(* app.rs.  App::tick is a sequence of phases; pc names the phase that     *)
(* runs next and is "idle" between two calls.  Nothing else runs while a   *)
(* tick is under way.                                                      *)
(***************************************************************************)
MAX_CLAN_SIZE == 15

TOMBSTONE_TICKS == 20

BIRTH_INTERVAL == 300

is_night(t) == t % 100 >= 60

\* App::tick with the orcs updated before the animals.
phase_after_orcs_first(p) ==
    CASE p = "begin" -> "orcs"
      [] p = "orcs" -> "animals"
      [] p = "animals" -> "retain_orcs"
      [] p = "retain_orcs" -> "retain_animals"
      [] p = "retain_animals" -> "respawn"
      [] p = "respawn" -> "regrowth"
      [] p = "regrowth" -> "birth"
      [] p = "birth" -> "idle"

\* The order of the phases in App::tick (lines 84-130).
phase_after(p) ==
    CASE p = "begin" -> "animals"
      [] p = "animals" -> "orcs"
      [] p = "orcs" -> "retain_orcs"
      [] p = "retain_orcs" -> "retain_animals"
      [] p = "retain_animals" -> "respawn"
      [] p = "respawn" -> "regrowth"
      [] p = "regrowth" -> "birth"
      [] p = "birth" -> "idle"

living_positions(os) ==
    LET alive(o) == o.alive
        living == SelectSeq(os, alive)
    IN  [i \in 1 .. Len(living) |-> <<living[i].x, living[i].y>>]

\* App::tick without the pause test of lines 67-69.
returns_early_never(p) == FALSE

\* Lines 67-69 of App::tick.
returns_early(p) == p

\* Lines 66-88: the pause test, the tick counter, the day and night messages
\* and the snapshot of the positions of the living orcs.
TickBegin ==
    /\ pc = "idle"
    /\ tick < MaxTick
    /\ IF returns_early(paused)
       THEN UNCHANGED <<tick, event_log, orc_positions, pc, idx>>
       ELSE /\ tick' = tick + 1
            /\ event_log' =
                IF (tick + 1) % 100 = 0 THEN log(event_log, tick + 1, "Day begins")
                ELSE IF (tick + 1) % 100 = 60
                THEN log(event_log, tick + 1, "Night falls...")
                ELSE event_log
            /\ orc_positions' = living_positions(orcs)
            /\ pc' = phase_after("begin")
            /\ idx' = 0
    /\ UNCHANGED <<tiles, food_stockpile, regrowth_timers, orcs, animals, paused,
                   cursor, selected_orc, fp>>

\* Lines 89-91: one turn of the loop over the animals, or its end.
AnimalStep ==
    /\ pc = "animals"
    /\ IF idx < Len(animals)
       THEN /\ \E a \in animal_update(animals[idx + 1], tiles, orc_positions) :
                animals' = [animals EXCEPT ![idx + 1] = a]
            /\ idx' = idx + 1
            /\ pc' = pc
       ELSE /\ pc' = phase_after("animals")
            /\ idx' = 0
            /\ animals' = animals
    /\ UNCHANGED <<tiles, food_stockpile, regrowth_timers, orcs, event_log, tick,
                   paused, cursor, selected_orc, orc_positions, fp>>

\* Lines 94-99: one turn of the loop over the orcs, or its end.
OrcStep ==
    /\ pc = "orcs"
    /\ IF idx < Len(orcs)
       THEN /\ \E r \in orc_update([o |-> orcs[idx + 1], tl |-> tiles,
                                    sp |-> food_stockpile, tm |-> regrowth_timers,
                                    an |-> animals, lg |-> event_log],
                                   tick, is_night(tick)) :
                /\ orcs' = [orcs EXCEPT ![idx + 1] = r.o]
                /\ tiles' = r.tl
                /\ food_stockpile' = r.sp
                /\ regrowth_timers' = r.tm
                /\ animals' = r.an
                /\ event_log' = r.lg
            /\ idx' = idx + 1
            /\ pc' = pc
       ELSE /\ pc' = phase_after("orcs")
            /\ idx' = 0
            /\ UNCHANGED <<orcs, tiles, food_stockpile, regrowth_timers, animals,
                           event_log>>
    /\ UNCHANGED <<tick, paused, cursor, selected_orc, orc_positions, fp>>

\* The retain of lines 102-109 keeping a tombstone one tick longer.
keeps_tombstone_one_more(o, at) ==
    IF ~o.alive /\ o.death_tick # NoIndex THEN at - o.death_tick <= TOMBSTONE_TICKS
    ELSE TRUE

\* The closure of the retain of lines 102-109.
keeps_tombstone(o, at) ==
    IF ~o.alive /\ o.death_tick # NoIndex THEN at - o.death_tick < TOMBSTONE_TICKS
    ELSE TRUE

\* The selection left as it is after the removal.
fix_selected_missing(sel, len) == sel

\* Lines 111-116: the selection after the removal, len orcs being left.
fix_selected(sel, len) ==
    IF sel # NoIndex /\ sel >= len
    THEN IF len = 0 THEN NoIndex ELSE len - 1
    ELSE sel

\* Lines 101-116: the dead orcs past the grace period go, the selection follows.
RetainOrcs ==
    /\ pc = "retain_orcs"
    /\ LET kept(o) == keeps_tombstone(o, tick)
           left == SelectSeq(orcs, kept)
       IN  /\ orcs' = left
           /\ selected_orc' = fix_selected(selected_orc, Len(left))
    /\ pc' = phase_after("retain_orcs")
    /\ UNCHANGED <<tiles, food_stockpile, regrowth_timers, animals, event_log, tick,
                   paused, cursor, idx, orc_positions, fp>>

\* The retain of line 119 keeping every animal.
keeps_animal_always(a) == TRUE

\* The closure of the retain of line 119.
keeps_animal(a) == a.alive

\* Lines 118-119.
RetainAnimals ==
    /\ pc = "retain_animals"
    /\ animals' = SelectSeq(animals, keeps_animal)
    /\ pc' = phase_after("retain_animals")
    /\ UNCHANGED <<tiles, food_stockpile, regrowth_timers, orcs, event_log, tick,
                   paused, cursor, selected_orc, idx, orc_positions, fp>>

\* Lines 121-122.
Respawn ==
    /\ pc = "respawn"
    /\ animals' \in try_respawn(animals, tiles, tick)
    /\ pc' = phase_after("respawn")
    /\ UNCHANGED <<tiles, food_stockpile, regrowth_timers, orcs, event_log, tick,
                   paused, cursor, selected_orc, idx, orc_positions, fp>>

\* Lines 124-125.
Regrowth ==
    /\ pc = "regrowth"
    /\ LET r == tick_regrowth(tiles, regrowth_timers, tick)
       IN  tiles' = r[1] /\ regrowth_timers' = r[2]
    /\ pc' = phase_after("regrowth")
    /\ UNCHANGED <<food_stockpile, orcs, animals, event_log, tick, paused, cursor,
                   selected_orc, idx, orc_positions, fp>>

Sum(f, S) ==
    LET RECURSIVE sum(_)
        sum(T) == IF T = {} THEN 0
                  ELSE LET x == CHOOSE x \in T : TRUE IN f[x] + sum(T \ {x})
    IN  sum(S)

LivingOrcs(os) == {i \in 1 .. Len(os) : os[i].alive}

\* check_birth tested without the stockpile.
birth_allowed_without_stockpile(os, sp) ==
    LET living == LivingOrcs(os)
        count == Cardinality(living)
    IN  /\ ~(count < 2 \/ count >= MAX_CLAN_SIZE)
        /\ Sum([i \in living |-> os[i].hunger], living) < 400 * count
        /\ Sum([i \in living |-> os[i].energy], living) > 400 * count

\* check_birth letting a clan of MAX_CLAN_SIZE grow.
birth_allowed_at_limit(os, sp) ==
    LET living == LivingOrcs(os)
        count == Cardinality(living)
    IN  /\ ~(count < 2 \/ count > MAX_CLAN_SIZE)
        /\ Sum([i \in living |-> os[i].hunger], living) < 400 * count
        /\ Sum([i \in living |-> os[i].energy], living) > 400 * count
        /\ sp > 0

\* Lines 134-145 of check_birth: the averages are sums divided by count.
birth_allowed(os, sp) ==
    LET living == LivingOrcs(os)
        count == Cardinality(living)
    IN  /\ ~(count < 2 \/ count >= MAX_CLAN_SIZE)
        /\ Sum([i \in living |-> os[i].hunger], living) < 400 * count
        /\ Sum([i \in living |-> os[i].energy], living) > 400 * count
        /\ sp > 0

\* Lines 151-162 of check_birth: a walkable draw, or the campfire tile.
birth_tiles(tl) ==
    LET draws == {<<clamp(campfire_pos[1] + a, 0, MAP_WIDTH - 1),
                    clamp(campfire_pos[2] + b, 0, MAP_HEIGHT - 1)>> :
                    a \in -SPOT_RANGE .. SPOT_RANGE, b \in -SPOT_RANGE .. SPOT_RANGE}
        good == {p \in draws : is_walkable(tl, p[1], p[2])}
    IN  good \cup (IF good # draws THEN {campfire_pos} ELSE {})

\* Lines 127-131 and check_birth (lines 133-171).
Birth ==
    /\ pc = "birth"
    /\ IF tick % BIRTH_INTERVAL = 0 /\ birth_allowed(orcs, food_stockpile)
       THEN /\ food_stockpile' = food_stockpile - 1
            /\ \E name \in pick_name({orcs[i].name : i \in 1 .. Len(orcs)}),
                  p \in birth_tiles(tiles) :
                orcs' = Append(orcs, new_orc(name, p[1], p[2]))
            /\ event_log' = log(event_log, tick, "is born into the clan!")
       ELSE UNCHANGED <<food_stockpile, orcs, event_log>>
    /\ pc' = phase_after("birth")
    /\ UNCHANGED <<tiles, regrowth_timers, animals, tick, paused, cursor,
                   selected_orc, idx, orc_positions, fp>>

Next ==
    \/ TickBegin
    \/ AnimalStep
    \/ OrcStep
    \/ RetainOrcs
    \/ RetainAnimals
    \/ Respawn
    \/ Regrowth
    \/ Birth

(***************************************************************************)
(* The specification of one find_path call on a small obstacle grid.       *)
(***************************************************************************)
BaseTiles ==
    [p \in Pos |->
        IF p = campfire_pos THEN "Campfire"
        ELSE IF p = RackPos THEN "MeatRack"
        ELSE "Grass"]

\* The quarter of the map next to the origin: the searches start and end in
\* it, and the obstacles lie in it.
Quadrant == {p \in Pos : 2 * p[1] < MAP_WIDTH /\ 2 * p[2] < MAP_HEIGHT}

ObstacleCells == Quadrant \ {campfire_pos, RackPos}

ObstacleKind(p) == IF (p[1] + p[2]) % 2 = 0 THEN "Rock" ELSE "Water"

TreeCell == <<1, 2>>

PathGrid(obst) ==
    [p \in Pos |->
        IF p \in obst THEN ObstacleKind(p)
        ELSE IF p = TreeCell THEN "Tree"
        ELSE BaseTiles[p]]

InitPath ==
    /\ \E obst \in SUBSET ObstacleCells :
        /\ Cardinality(obst) <= MaxObstacles
        /\ tiles = PathGrid(obst)
    /\ fp = NoCall
    /\ food_stockpile = 0
    /\ regrowth_timers = <<>>
    /\ orcs = <<>>
    /\ animals = <<>>
    /\ event_log = <<>>
    /\ tick = 0
    /\ paused = FALSE
    /\ cursor = campfire_pos
    /\ selected_orc = NoIndex
    /\ pc = "idle"
    /\ idx = 0
    /\ orc_positions = <<>>

FindPathCall ==
    /\ fp.pc = "idle"
    /\ \E s \in Quadrant, g \in Quadrant, allow_tree \in BOOLEAN :
        fp' = find_path_enter(s[1], s[2], g[1], g[2], allow_tree)
    /\ UNCHANGED <<tiles, appVars>>

FindPathPop ==
    /\ fp.pc = "loop"
    /\ fp.open # {}
    /\ \E current \in PopCandidates(fp) :
        fp' = find_path_iter(tiles, fp, current)
    /\ UNCHANGED <<tiles, appVars>>

FindPathEmpty ==
    /\ fp.pc = "loop"
    /\ fp.open = {}
    /\ fp' = find_path_exhausted(fp)
    /\ UNCHANGED <<tiles, appVars>>

NextPath == FindPathCall \/ FindPathPop \/ FindPathEmpty

SpecPath == InitPath /\ [][NextPath]_vars

(***************************************************************************)
(* Claims about find_path, checked under SpecPath                          *)
(***************************************************************************)
Returned == fp.pc = "done" /\ fp.result = "Some"

Start == <<fp.sx, fp.sy>>

Goal == <<fp.gx, fp.gy>>

\* The tiles a path may step on: inside the grid, neither Rock nor Water.
FreeTile(p) == p \in Pos /\ tiles[p] # "Rock" /\ tiles[p] # "Water"

EightNeighbours(a, b) ==
    a # b /\ abs_diff(a[1], b[1]) <= 1 /\ abs_diff(a[2], b[2]) <= 1

\* 10 for an orthogonal step, 14 for a diagonal one.
StepCost(a, b) == IF a[1] # b[1] /\ a[2] # b[2] THEN 14 ELSE 10

RECURSIVE CostFrom(_, _, _)
CostFrom(prev, path, i) ==
    IF i > Len(path) THEN 0
    ELSE StepCost(prev, path[i]) + CostFrom(path[i], path, i + 1)

PathCost == CostFrom(Start, fp.path, 1)

\* Exhaustive search: the cheapest cost of reaching every tile from the start
\* over 8-connected steps onto free tiles or onto the goal, never leaving the
\* goal, among the walks of cost at most `limit`.
Cheapest(S) ==
    {n \in S : \A m \in S : m.pos = n.pos => n.cost <= m.cost}

Spread(S, limit) ==
    Cheapest(S \cup
        {[pos |-> <<nd[1].pos[1] + nd[2][1], nd[1].pos[2] + nd[2][2]>>,
          cost |-> nd[1].cost + StepCost(<<0, 0>>, nd[2])] :
            nd \in
                {nd \in S \X Directions :
                    LET q == <<nd[1].pos[1] + nd[2][1], nd[1].pos[2] + nd[2][2]>>
                    IN  /\ nd[1].pos # Goal
                        /\ nd[1].cost + StepCost(<<0, 0>>, nd[2]) <= limit
                        /\ q \in Pos
                        /\ (q = Goal \/ FreeTile(q))}})

RECURSIVE Flood(_, _)
Flood(S, limit) ==
    LET T == Spread(S, limit) IN IF T = S THEN S ELSE Flood(T, limit)

Reached(limit) == Flood({[pos |-> Start, cost |-> 0]}, limit)

\* The longest walk without a repeated tile costs less than this.
AnyCost == 14 * MAP_WIDTH * MAP_HEIGHT

\* C1: whenever find_path returns a path, the summed step costs of the path
\* (10 orthogonal, 14 diagonal) equal the minimum cost over all 8-connected
\* paths from start to goal found by exhaustive search.
C1_OptimalCost ==
    Returned => \E n \in Reached(PathCost) : n.pos = Goal /\ n.cost = PathCost

\* A returned path that is a real detour: longer than the straight-line cost.
C1_Witness ==
    /\ Returned
    /\ Len(fp.path) >= 4
    /\ PathCost > heuristic(fp.sx, fp.sy, fp.gx, fp.gy)
    /\ \E n \in Reached(PathCost) : n.pos = Goal /\ n.cost = PathCost

\* C2: a search that has expanded more nodes than the cap without popping the
\* goal has returned None, the count never runs past cap + 1, and every path
\* that is returned ends at the goal (or is empty when start = goal).
C2_CapReturnsNone ==
    /\ fp.searched <= max_search + 1
    /\ fp.searched > max_search => fp.pc = "done" /\ fp.result = "None"
    /\ Returned =>
        IF Start = Goal THEN fp.path = <<>>
        ELSE fp.path # <<>> /\ fp.path[Len(fp.path)] = Goal

\* The cap is hit on a grid where the goal can be reached.
C2_Witness ==
    /\ fp.pc = "done"
    /\ fp.result = "None"
    /\ fp.searched = max_search + 1
    /\ \E n \in Reached(AnyCost) : n.pos = Goal

\* C3: a returned path is empty when start = goal; otherwise it leaves out
\* the start, begins next to the start, moves by 8-neighbour steps, ends
\* at the goal, and every waypoint but the goal is a free tile of the grid.
C3_PathShape ==
    Returned =>
        IF Start = Goal THEN fp.path = <<>>
        ELSE /\ Len(fp.path) >= 1
             /\ \A i \in 1 .. Len(fp.path) : fp.path[i] # Start
             /\ EightNeighbours(Start, fp.path[1])
             /\ \A i \in 1 .. Len(fp.path) - 1 :
                    EightNeighbours(fp.path[i], fp.path[i + 1])
             /\ fp.path[Len(fp.path)] = Goal
             /\ \A i \in 1 .. Len(fp.path) - 1 : FreeTile(fp.path[i])

\* A path of several steps to a goal that is itself Rock or Water.
C3_Witness ==
    /\ Returned
    /\ Len(fp.path) >= 3
    /\ ~FreeTile(Goal)
    /\ \E p \in Pos : ~FreeTile(p) /\ p # Goal

\* C23: find_path treats the goal tile as passable whatever its terrain: for
\* a goal that is Rock or Water, other than the start, with a passable
\* 8-neighbour that can be reached from the start, a search that ends within
\* the budget returns a path whose last waypoint is the goal, and no other
\* Rock or Water tile is on it.
C23_GoalPassable ==
    (/\ fp.pc = "done"
     /\ Start # Goal
     /\ ~FreeTile(Goal)
     /\ \E n \in Reached(AnyCost) : n.pos = Goal
     /\ fp.searched <= max_search) =>
        /\ fp.result = "Some"
        /\ fp.path # <<>>
        /\ fp.path[Len(fp.path)] = Goal
        /\ \A i \in 1 .. Len(fp.path) - 1 : FreeTile(fp.path[i])

\* A path of two steps or more round an obstacle to a goal that is Water.
C23_Witness ==
    /\ Returned
    /\ tiles[Goal] = "Water"
    /\ Len(fp.path) >= 2
    /\ PathCost > heuristic(fp.sx, fp.sy, fp.gx, fp.gy)

(***************************************************************************)
(* The specification of App::tick on a small camp: a pond, a bush, a tree  *)
(* and a rock around the campfire and the meat rack.  Every run starts     *)
(* between two ticks, at tick StartTick, from one of a few clans.          *)
(***************************************************************************)
PondCell == <<0, 0>>

BushCell == <<2, 0>>

CampTiles ==
    [p \in Pos |->
        IF p = PondCell THEN "Water"
        ELSE IF p = BushCell THEN "Bush"
        ELSE IF p = <<4, 0>> THEN "Tree"
        ELSE IF p = <<3, 1>> THEN "Rock"
        ELSE BaseTiles[p]]

\* An orc as Orc::new makes it, then aged: the fields named in `with` replace
\* those of the new orc.
aged(name, x, y, with) ==
    [f \in DOMAIN new_orc(name, x, y) |->
        IF f \in DOMAIN with THEN with[f] ELSE new_orc(name, x, y)[f]]

South == MAP_HEIGHT - 1

Hunter == aged("Grok", 1, South, [activity |-> Hunting(0), hunger |-> 300])

HungryHunter == aged("Grok", 1, South, [activity |-> Hunting(0), hunger |-> 600])

Starving ==
    aged("Brak", 2, 3, [hunger |-> 1000, thirst |-> 1000, energy |-> 20,
                        health |-> 80])

Tombstone ==
    aged("Murg", 1, 1, [hunger |-> 1000, thirst |-> 990, energy |-> 0,
                        health |-> 0, alive |-> FALSE,
                        death_tick |-> StartTick - 18])

Sleeper == aged("Murg", 2, 2, [activity |-> Sleeping, energy |-> 850])

Wanderer == aged("Grok", 1, 2, [idle_ticks |-> 3])

Thirsty == aged("Brak", 3, 3, [thirst |-> 700])

Forager ==
    aged("Grok", 2, 1, [hunger |-> 800,
                        activity |-> GoingTo(2, 0, "Looking for food"),
                        path |-> <<BushCell>>])

Eater == aged("Brak", 1, 3, [activity |-> Eating, hunger |-> 50])

Drinker == aged("Murg", 0, 1, [activity |-> Drinking, thirst |-> 260])

Clans ==
    {[orcs |-> <<Hunter, Tombstone>>, animals |-> <<new_animal("Deer", 0, South)>>,
      food_stockpile |-> 0],
     [orcs |-> <<HungryHunter>>, animals |-> <<new_animal("Deer", 0, South)>>,
      food_stockpile |-> 0],
     [orcs |-> <<Starving, Sleeper>>, animals |-> <<new_animal("Boar", 3, 3)>>,
      food_stockpile |-> 1],
     [orcs |-> <<Wanderer>>, animals |-> <<new_animal("Deer", 4, 2)>>,
      food_stockpile |-> 0],
     [orcs |-> <<Eater, Drinker>>, animals |-> <<>>, food_stockpile |-> 0],
     [orcs |-> <<Thirsty, Tombstone>>, animals |-> <<>>, food_stockpile |-> 2],
     [orcs |-> <<Forager>>, animals |-> <<>>, food_stockpile |-> 0]}

Quiet ==
    /\ regrowth_timers = <<>>
    /\ event_log = <<>>
    /\ paused = FALSE
    /\ cursor = campfire_pos
    /\ pc = "idle"
    /\ idx = 0
    /\ orc_positions = <<>>
    /\ fp = NoCall

Init ==
    /\ tiles = CampTiles
    /\ \E clan \in Clans :
        /\ orcs = clan.orcs
        /\ animals = clan.animals
        /\ food_stockpile = clan.food_stockpile
        /\ selected_orc \in {NoIndex, Len(clan.orcs) - 1}
    /\ tick = StartTick
    /\ Quiet

Spec == Init /\ [][Next]_vars

Need == 0 .. 1000

\* C4: in every reachable state the hunger, thirst, energy and health of
\* every orc, living or dead, lie in [0, 100] (0 .. 1000 tenths).
C4_NeedsInRange ==
    \A i \in 1 .. Len(orcs) :
        /\ orcs[i].hunger \in Need
        /\ orcs[i].thirst \in Need
        /\ orcs[i].energy \in Need
        /\ orcs[i].health \in Need

\* After a tick, needs sit on both ends of the range: an orc whose hunger and
\* thirst are held at 100 and whose health was cut, next to one at full health.
C4_Witness ==
    /\ tick > StartTick
    /\ pc = "retain_orcs"
    /\ \E i \in 1 .. Len(orcs) :
        /\ orcs[i].alive
        /\ orcs[i].hunger = 1000
        /\ orcs[i].thirst = 1000
        /\ orcs[i].health < 80
    /\ \E i \in 1 .. Len(orcs) : orcs[i].alive /\ orcs[i].health = 1000

\* C5: a dead orc is left as it is by every step of every later tick: its
\* needs, position, activity and death_tick keep their values until the
\* orc is removed, and an orc that dies gets the current tick as death_tick.
C5_DeadOrcFrozen ==
    [][/\ \A i \in 1 .. Len(orcs) :
            ~orcs[i].alive =>
                IF pc = "retain_orcs"
                THEN \/ \E j \in 1 .. Len(orcs') : orcs'[j] = orcs[i]
                     \/ Len(orcs') < Len(orcs)
                ELSE i <= Len(orcs') /\ orcs'[i] = orcs[i]
       /\ \A j \in 1 .. Len(orcs') :
            pc = "retain_orcs" => \E i \in 1 .. Len(orcs) : orcs'[j] = orcs[i]
       /\ \A i \in 1 .. Len(orcs) :
            (orcs[i].alive /\ i <= Len(orcs') /\ ~orcs'[i].alive) =>
                /\ pc = "orcs"
                /\ orcs'[i].health = 0
                /\ orcs'[i].death_tick = tick]_vars

\* An orc that died during the run lies unchanged two ticks later.
C5_Witness ==
    /\ pc = "idle"
    /\ \E i \in 1 .. Len(orcs) :
        /\ ~orcs[i].alive
        /\ orcs[i].death_tick > StartTick
        /\ tick >= orcs[i].death_tick + 2
        /\ orcs[i].health = 0

PositionsOfLiving ==
    LET living == {i \in 1 .. Len(orcs) : orcs[i].alive}
        rank(i) == Cardinality({j \in living : j <= i})
    IN  [k \in 1 .. Cardinality(living) |->
            LET i == CHOOSE i \in living : rank(i) = k
            IN  <<orcs[i].x, orcs[i].y>>]

PastGrace(o) == ~o.alive /\ o.death_tick # NoIndex /\ tick - o.death_tick >= 20

\* C6: an unpaused tick runs its phases in this order: the animals, each
\* against the positions the living orcs had before any orc moved; the orcs
\* in index order; the removal of the dead orcs past the grace period; the
\* removal of the dead animals; the respawn; the regrowth sweep; and the
\* birth check, which changes nothing unless tick % 300 = 0.
C6_PhaseOrder ==
    [][/\ pc = "idle" /\ pc' # "idle" =>
            /\ ~paused
            /\ tick' = tick + 1
            /\ pc' = "animals"
            /\ idx' = 0
            /\ orc_positions' = PositionsOfLiving
       /\ pc = "animals" =>
            /\ orc_positions = PositionsOfLiving
            /\ orcs' = orcs
            /\ \/ /\ pc' = "animals"
                  /\ idx < Len(animals)
                  /\ idx' = idx + 1
                  /\ Len(animals') = Len(animals)
                  /\ \A j \in 1 .. Len(animals) : j # idx + 1 => animals'[j] = animals[j]
               \/ /\ pc' = "orcs"
                  /\ idx = Len(animals)
                  /\ idx' = 0
                  /\ animals' = animals
       /\ pc = "orcs" =>
            \/ /\ pc' = "orcs"
               /\ idx < Len(orcs)
               /\ idx' = idx + 1
               /\ Len(orcs') = Len(orcs)
               /\ \A j \in 1 .. Len(orcs) : j # idx + 1 => orcs'[j] = orcs[j]
            \/ /\ pc' = "retain_orcs"
               /\ idx = Len(orcs)
               /\ orcs' = orcs
               /\ animals' = animals
       /\ pc = "retain_orcs" =>
            /\ pc' = "retain_animals"
            /\ animals' = animals
            /\ \A j \in 1 .. Len(orcs') : ~PastGrace(orcs'[j])
            /\ Len(orcs') = Cardinality({i \in 1 .. Len(orcs) : ~PastGrace(orcs[i])})
       /\ pc = "retain_animals" =>
            /\ pc' = "respawn"
            /\ orcs' = orcs
            /\ \A j \in 1 .. Len(animals') : animals'[j].alive
            /\ Len(animals') = Cardinality({i \in 1 .. Len(animals) : animals[i].alive})
       /\ pc = "respawn" => pc' = "regrowth" /\ orcs' = orcs /\ tiles' = tiles
       /\ pc = "regrowth" => pc' = "birth" /\ orcs' = orcs /\ animals' = animals
       /\ pc = "birth" =>
            /\ pc' = "idle"
            /\ animals' = animals
            /\ tiles' = tiles
            /\ tick % 300 # 0 => orcs' = orcs /\ food_stockpile' = food_stockpile
       /\ pc # "idle" => tick' = tick]_vars

\* The last phase of tick 300: an orc has moved since the snapshot that the
\* animal of this clan was updated against.
C6_Witness ==
    /\ pc = "birth"
    /\ tick % 300 = 0
    /\ animals # <<>>
    /\ orc_positions # PositionsOfLiving
    /\ Len(orc_positions) = Len(PositionsOfLiving)

\* The orc whose turn it is, as the arms of Orc::update find it: its needs
\* already updated for this tick.
OrcInTurn == update_needs(orcs[idx + 1], is_night(tick))

InTurn ==
    /\ pc = "orcs"
    /\ idx < Len(orcs)
    /\ orcs[idx + 1].alive
    /\ OrcInTurn.health > 0

Distance(o, p) == abs_diff(o.x, p[1]) + abs_diff(o.y, p[2])

\* C9: a Hunting orc within Manhattan distance 1 of its living target, with
\* hunger <= 50 when the Hunting arm runs (so after the needs update of the
\* tick, which the orc survives), kills the target and becomes CarryingMeat with
\* carrying_food set; a CarryingMeat orc that is within distance 1 of the
\* meat rack when its turn comes stores the meat: the stockpile grows by
\* exactly 1, carrying_food is cleared and the orc becomes Idle; and the
\* stockpile grows in no other way.
C9_HuntCarryStore ==
    [][LET o == orcs[idx + 1]
           t == o.activity.target_idx + 1
       IN  /\ (/\ InTurn
               /\ o.activity.kind = "Hunting"
               /\ t <= Len(animals)
               /\ animals[t].alive
               /\ Distance(o, <<animals[t].x, animals[t].y>>) <= 1
               /\ OrcInTurn.hunger <= 500) =>
                    /\ ~animals'[t].alive
                    /\ orcs'[idx + 1].activity.kind = "CarryingMeat"
                    /\ orcs'[idx + 1].carrying_food
                    /\ food_stockpile' = food_stockpile
           /\ (/\ InTurn
               /\ o.activity.kind = "CarryingMeat"
               /\ tiles[RackPos] = "MeatRack"
               /\ Distance(o, RackPos) <= 1) =>
                    /\ food_stockpile' = food_stockpile + 1
                    /\ ~orcs'[idx + 1].carrying_food
                    /\ orcs'[idx + 1].activity.kind = "Idle"
           /\ food_stockpile' > food_stockpile =>
                    /\ InTurn
                    /\ o.activity.kind = "CarryingMeat"
                    /\ Distance(o, RackPos) <= 1]_vars

\* The hunter has caught the deer, carried the meat along the south edge and
\* stored it from the tile next to the rack.
C9_Witness ==
    /\ food_stockpile = 1
    /\ \E i \in 1 .. Len(event_log) : event_log[i][2] = "caught an animal"
    /\ \E i \in 1 .. Len(event_log) : event_log[i][2] = "stored meat"
    /\ \E i \in 1 .. Len(orcs) :
        /\ orcs[i].activity.kind = "Idle"
        /\ ~orcs[i].carrying_food
        /\ Distance(orcs[i], RackPos) = 1

(***************************************************************************)
(* The specification of one tick of a single Idle orc, over a range of     *)
(* needs, with and without the pond.                                       *)
(***************************************************************************)
DryTiles == [CampTiles EXCEPT ![PondCell] = "Grass"]

DecideHunger == {100, 750, 900}

DecideThirst == {500, 800, 950}

DecideEnergy == {100, 500}

DecideHealth == {100, 190, 250}

InitDecide ==
    /\ tiles \in {CampTiles, DryTiles}
    /\ \E h \in DecideHunger, t \in DecideThirst, e \in DecideEnergy,
          hl \in DecideHealth :
        orcs = <<aged("Grok", 1, 2, [hunger |-> h, thirst |-> t, energy |-> e,
                                     health |-> hl])>>
    /\ animals = <<new_animal("Deer", 0, South)>>
    /\ food_stockpile = 0
    /\ selected_orc = NoIndex
    /\ tick = MaxTick - 1
    /\ Quiet

SpecDecide == InitDecide /\ [][Next]_vars

\* C8: an Idle living orc that enters decide_action with health < 20 and a
\* thirst strictly greater than both its hunger and 100 - energy, and for
\* which find_water_adjacent returns a tile, leaves it GoingTo that tile with
\* the reason "Desperate for water", whatever its hunger, its energy and
\* carrying_food.
C8_DesperateForWater ==
    [][LET o == orcs[idx + 1]
           water == find_water_adjacent(tiles, o.x, o.y)
       IN  (/\ InTurn
            /\ o.activity.kind = "Idle"
            /\ OrcInTurn.health < 200
            /\ OrcInTurn.thirst > OrcInTurn.hunger
            /\ OrcInTurn.thirst > 1000 - OrcInTurn.energy
            /\ water # NoPos) =>
                /\ orcs'[idx + 1].activity.kind = "GoingTo"
                /\ orcs'[idx + 1].activity.x = water[1]
                /\ orcs'[idx + 1].activity.y = water[2]
                /\ orcs'[idx + 1].activity.reason = "Desperate for water"]_vars

\* The orc heads for the pond although it is hungry beyond 70 and tired
\* below 20.
C8_Witness ==
    /\ orcs # <<>>
    /\ orcs[1].activity.reason = "Desperate for water"
    /\ <<orcs[1].activity.x, orcs[1].activity.y>> \in {<<0, 1>>, <<1, 0>>}
    /\ orcs[1].hunger > 700
    /\ orcs[1].energy < 200

(***************************************************************************)
(* The specification of the tick of the birth check: a sleeping clan of    *)
(* every size around the limits, fed and rested around the thresholds.     *)
(***************************************************************************)
ClanSizes == {1, 2, 3, MAX_CLAN_SIZE - 1, MAX_CLAN_SIZE}

\* <<hunger, energy>> at tick 299; the tick adds 0.5 and 3.0 to a sleeper.
BirthProfiles == {<<300, 500>>, <<394, 371>>, <<395, 370>>, <<600, 200>>}

sleeping_clan(n, lead, rest) ==
    [i \in 1 .. n |->
        aged(NamePool[i], 2, 2,
             [activity |-> Sleeping,
              hunger |-> IF i = 1 THEN lead[1] ELSE rest[1],
              energy |-> IF i = 1 THEN lead[2] ELSE rest[2]])]

InitBirth ==
    /\ tiles = CampTiles
    /\ \E n \in ClanSizes, lead \in BirthProfiles, rest \in BirthProfiles,
          dead \in {<<>>, <<[Tombstone EXCEPT !.death_tick = BIRTH_INTERVAL - 5]>>} :
        orcs = sleeping_clan(n, lead, rest) \o dead
    /\ animals = <<>>
    /\ food_stockpile \in 0 .. 1
    /\ selected_orc = NoIndex
    /\ tick = BIRTH_INTERVAL - 1
    /\ Quiet

SpecBirth == InitBirth /\ [][Next]_vars

Living == {i \in 1 .. Len(orcs) : orcs[i].alive}

RECURSIVE Total(_, _)
Total(field, n) ==
    IF n = 0 THEN 0
    ELSE (IF orcs[n].alive THEN orcs[n][field] ELSE 0) + Total(field, n - 1)

\* Average hunger < 40 and average energy > 40, in tenths and without division.
FedAndRested ==
    /\ Total("hunger", Len(orcs)) < 400 * Cardinality(Living)
    /\ Total("energy", Len(orcs)) > 400 * Cardinality(Living)

\* C10: in the birth check of a tick with tick % 300 = 0, a birth occurs if
\* and only if the number of living orcs is in [2, 15), their average hunger
\* is < 40, their average energy is > 40 and food_stockpile > 0; the birth
\* takes exactly 1 from the stockpile and adds exactly one living orc; when
\* the condition fails neither the stockpile nor the orcs change.
C10_Birth ==
    [][(pc = "birth" /\ tick % 300 = 0) =>
            IF /\ Cardinality(Living) >= 2
               /\ Cardinality(Living) < 15
               /\ FedAndRested
               /\ food_stockpile > 0
            THEN /\ food_stockpile' = food_stockpile - 1
                 /\ Len(orcs') = Len(orcs) + 1
                 /\ SubSeq(orcs', 1, Len(orcs)) = orcs
                 /\ orcs'[Len(orcs')].alive
            ELSE /\ food_stockpile' = food_stockpile
                 /\ orcs' = orcs]_vars

\* A birth at tick 300 into a clan of 14 that took the last unit of food.
C10_Witness ==
    /\ tick = 300
    /\ pc = "idle"
    /\ Cardinality(Living) = 15
    /\ Len(orcs) = 16
    /\ food_stockpile = 0
    /\ event_log # <<>>
    /\ event_log[Len(event_log)] = <<300, "is born into the clan!">>

(***************************************************************************)
(* The specification of the World alone over the life of a regrowth timer: *)
(* in every tick the callers of the World may deplete the bush and may     *)
(* overwrite a tile with the terrains they write, and then the sweep runs. *)
(***************************************************************************)
\* The sweeps run up to tick REGROW_DELAY + WorldSlack.
WorldSlack == 4

\* The tiles the callers act on: the bush and the grass next to it.
WorldCells == {BushCell, <<BushCell[1], BushCell[2] + 1>>}

InitWorld ==
    /\ tiles = CampTiles
    /\ orcs = <<>>
    /\ animals = <<>>
    /\ food_stockpile = 0
    /\ selected_orc = NoIndex
    /\ tick = 0
    /\ Quiet

\* arrive_at_destination on a Bush (orc.rs lines 277-280): the message and
\* deplete_bush with the current tick.
WorldDeplete ==
    /\ tick <= REGROW_DELAY + WorldSlack
    /\ \E p \in WorldCells :
        /\ tiles[p] = "Bush"
        /\ event_log' = log(event_log, tick, "found berries and starts eating")
        /\ LET r == deplete_bush(tiles, regrowth_timers, p[1], p[2], tick)
           IN  tiles' = r[1] /\ regrowth_timers' = r[2]
    /\ UNCHANGED <<food_stockpile, orcs, animals, tick, paused, cursor,
                   selected_orc, pc, idx, orc_positions, fp>>

\* World::set with a terrain its callers write: Food (Animal::kill,
\* drop_food) or Grass (the food is picked up or eaten).
WorldSet ==
    /\ tick <= REGROW_DELAY + WorldSlack
    /\ \E p \in WorldCells, terrain \in {"Food", "Grass"} :
        tiles' = [tiles EXCEPT ![p] = terrain]
    /\ UNCHANGED <<food_stockpile, regrowth_timers, orcs, animals, event_log,
                   tick, paused, cursor, selected_orc, pc, idx, orc_positions, fp>>

\* The sweep that ends the tick; the next calls belong to the next tick.
WorldSweep ==
    /\ tick <= REGROW_DELAY + WorldSlack
    /\ LET r == tick_regrowth(tiles, regrowth_timers, tick)
       IN  tiles' = r[1] /\ regrowth_timers' = r[2]
    /\ tick' = tick + 1
    /\ UNCHANGED <<food_stockpile, orcs, animals, event_log, paused, cursor,
                   selected_orc, pc, idx, orc_positions, fp>>

NextWorld ==
    \/ WorldDeplete
    \/ WorldSet
    \/ WorldSweep

SpecWorld == InitWorld /\ [][NextWorld]_vars

\* C7: deplete_bush at tick t turns a Bush into DepletedBush with a timer
\* for t + 80; the sweep of every tick up to t + 79 leaves the tile as it
\* is; the sweep of tick t + 80 turns it into Bush when it is still
\* DepletedBush and leaves it alone when it is not; nothing but that sweep
\* or an overwrite ends the DepletedBush.
C7_Regrowth ==
    [][/\ Len(regrowth_timers') > Len(regrowth_timers) =>
            LET timer == regrowth_timers'[Len(regrowth_timers')]
                p == <<timer[1], timer[2]>>
            IN  /\ tiles[p] = "Bush"
                /\ tiles'[p] = "DepletedBush"
                /\ timer[3] = tick + 80
                /\ tick' = tick
       /\ \A i \in 1 .. Len(regrowth_timers) :
            LET p == <<regrowth_timers[i][1], regrowth_timers[i][2]>>
                t == regrowth_timers[i][3] - 80
            IN  /\ tick' = tick + 1 =>
                    IF tick <= t + 79
                    THEN tiles'[p] = tiles[p] /\ tiles[p] # "Bush"
                    ELSE /\ tick = t + 80
                         /\ tiles'[p] = IF tiles[p] = "DepletedBush" THEN "Bush"
                                        ELSE tiles[p]
                /\ (tiles[p] = "DepletedBush" /\ tiles'[p] # "DepletedBush") =>
                    \/ tick' = tick + 1 /\ tick = t + 80 /\ tiles'[p] = "Bush"
                    \/ tick' = tick /\ tiles'[p] \in {"Food", "Grass"}]_vars

\* The bush eaten at tick t has grown back in the sweep of tick t + 80, and
\* was still depleted before that sweep.
C7_Witness ==
    /\ tiles[BushCell] = "Bush"
    /\ regrowth_timers = <<>>
    /\ event_log # <<>>
    /\ tick = event_log[Len(event_log)][1] + 81

(***************************************************************************)
(* The specification of one tick of a deer among sleeping orcs: the deer   *)
(* stands anywhere on the camp, two living orcs and a dead one lie where   *)
(* they fell asleep.                                                       *)
(***************************************************************************)
\* The tiles the sleepers lie on: in and out of the deer's range, on both
\* sides of it.
Beds == {<<0, 1>>, <<2, 2>>, <<4, 3>>, <<1, South>>}

asleep(name, p) == aged(name, p[1], p[2], [activity |-> Sleeping, energy |-> 500])

InitFlee ==
    /\ tiles = CampTiles
    /\ \E first \in Beds, second \in Beds :
        orcs = <<[Tombstone EXCEPT !.death_tick = MaxTick - 5],
                 asleep("Grok", first), asleep("Brak", second)>>
    /\ \E p \in Pos, kind \in AnimalKind :
        /\ is_walkable(CampTiles, p[1], p[2])
        /\ animals = <<new_animal(kind, p[1], p[2])>>
    /\ food_stockpile = 0
    /\ selected_orc = NoIndex
    /\ tick = MaxTick - 1
    /\ Quiet

SpecFlee == InitFlee /\ [][Next]_vars

\* The animal whose turn it is in the loop over the animals.
AnimalInTurn == animals[idx + 1]

DeerInTurn ==
    /\ pc = "animals"
    /\ idx < Len(animals)
    /\ AnimalInTurn.alive
    /\ AnimalInTurn.kind = "Deer"

\* The living orcs within Manhattan distance 5 of the animal in turn.
OrcsInRange ==
    {i \in 1 .. Len(orcs) :
        orcs[i].alive /\ Distance(orcs[i], <<AnimalInTurn.x, AnimalInTurn.y>>) <= 5}

Away(a, b) == IF a > b THEN 1 ELSE IF a < b THEN -1 ELSE 0

\* Two tiles straight away from orc i on each axis, from the deer's tile.
TwoAway(i) ==
    <<AnimalInTurn.x + 2 * Away(AnimalInTurn.x, orcs[i].x),
      AnimalInTurn.y + 2 * Away(AnimalInTurn.y, orcs[i].y)>>

\* The same, held inside the grid.
TwoAwayClamped(i) ==
    <<Max(0, Min(MAP_WIDTH - 1, TwoAway(i)[1])),
      Max(0, Min(MAP_HEIGHT - 1, TwoAway(i)[2]))>>

Walkable(p) == p \in Pos /\ tiles[p] \notin {"Rock", "Water"}

\* Where the deer ends when it flees to the tile p, or stays when p is not walkable.
FledTo(p) ==
    /\ animals'[idx + 1].x = (IF Walkable(p) THEN p[1] ELSE AnimalInTurn.x)
    /\ animals'[idx + 1].y = (IF Walkable(p) THEN p[2] ELSE AnimalInTurn.y)

\* C11 as stated: a living Deer with a living orc within distance 5 ends the
\* update exactly 2 tiles from its previous position, directly away from
\* that orc, or at its previous position when that tile is not walkable.
C11_FleeTwoTiles ==
    [][(DeerInTurn /\ OrcsInRange # {}) =>
            \E i \in OrcsInRange : FledTo(TwoAway(i))]_vars

\* C11 amended: the deer ends the update on the tile 2 away from such an orc
\* on each axis on which they differ, held inside the grid, or at its
\* previous position when that tile is not walkable; it takes no other step.
C11_FleeClamped ==
    [][(DeerInTurn /\ OrcsInRange # {}) =>
            \E i \in OrcsInRange : FledTo(TwoAwayClamped(i))]_vars

\* A deer on the row of the campfire, east of two orcs asleep there, is on the
\* east edge: the grid held it there.
C11_Witness ==
    /\ pc = "orcs"
    /\ animals # <<>>
    /\ animals[1].kind = "Deer"
    /\ <<animals[1].x, animals[1].y>> = <<MAP_WIDTH - 1, campfire_pos[2]>>
    /\ <<orcs[2].x, orcs[2].y>> = campfire_pos
    /\ <<orcs[3].x, orcs[3].y>> = campfire_pos

\* C12: when several living orcs are within Manhattan distance 5 of a Deer,
\* the Deer flees from the nearest of them: its flee move is the one computed
\* from an orc at minimum Manhattan distance.
C12_FleesNearest ==
    [][(DeerInTurn /\ OrcsInRange # {}) =>
            \E i \in OrcsInRange :
                /\ \A j \in OrcsInRange :
                    Distance(orcs[i], <<AnimalInTurn.x, AnimalInTurn.y>>)
                        <= Distance(orcs[j], <<AnimalInTurn.x, AnimalInTurn.y>>)
                /\ FledTo(TwoAwayClamped(i))]_vars

(***************************************************************************)
(* app.rs: the commands of the key handler (main.rs lines 59-67).  The     *)
(* event loop runs a command or a tick, never one inside the other, so a   *)
(* command runs only when pc = "idle".                                     *)
(***************************************************************************)
\* move_cursor without the clamp of lines 174-175.
move_cursor_unclamped(cur, dx, dy) == <<cur[1] + dx, cur[2] + dy>>

move_cursor(cur, dx, dy) ==
    <<clamp(cur[1] + dx, 0, MAP_WIDTH - 1), clamp(cur[2] + dy, 0, MAP_HEIGHT - 1)>>

\* The arrow keys (main.rs lines 62-65).
Arrows == {<<0, -1>>, <<0, 1>>, <<-1, 0>>, <<1, 0>>}

MoveCursor ==
    /\ pc = "idle"
    /\ \E d \in Arrows : cursor' = move_cursor(cursor, d[1], d[2])
    /\ UNCHANGED <<tiles, food_stockpile, regrowth_timers, orcs, animals, event_log,
                   tick, paused, selected_orc, pc, idx, orc_positions, fp>>

TogglePause ==
    /\ pc = "idle"
    /\ paused' = ~paused
    /\ UNCHANGED <<tiles, food_stockpile, regrowth_timers, orcs, animals, event_log,
                   tick, cursor, selected_orc, pc, idx, orc_positions, fp>>

\* Lines 218-237 of cycle_selected_orc: the next selection (0-based indexes).
cycle_selected_orc(os, sel) ==
    LET living == {i - 1 : i \in LivingOrcs(os)}
        later == {i \in living : i > sel}
        first(S) == CHOOSE i \in S : \A j \in S : i <= j
    IN  IF living = {} THEN NoIndex
        ELSE IF sel = NoIndex THEN first(living)
        ELSE IF sel \in living /\ later # {} THEN first(later)
        ELSE NoIndex

\* cycle_selected_orc (lines 217-244): the cursor snaps to the selected orc.
CycleSelectedOrc ==
    /\ pc = "idle"
    /\ selected_orc' = cycle_selected_orc(orcs, selected_orc)
    /\ cursor' = IF selected_orc' # NoIndex
                 THEN <<orcs[selected_orc' + 1].x, orcs[selected_orc' + 1].y>>
                 ELSE cursor
    /\ UNCHANGED <<tiles, food_stockpile, regrowth_timers, orcs, animals, event_log,
                   tick, paused, pc, idx, orc_positions, fp>>

\* drop_food on any tile.
drop_food_anywhere(tl, cur) == [tl EXCEPT ![cur] = "Food"]

\* drop_food on every tile an orc can walk on.
drop_food_on_walkable(tl, cur) ==
    IF walkable(tl[cur]) THEN [tl EXCEPT ![cur] = "Food"] ELSE tl

\* Lines 247-249 of drop_food.
drop_food(tl, cur) == IF tl[cur] = "Grass" THEN [tl EXCEPT ![cur] = "Food"] ELSE tl

FoodTiles(tl) == {p \in Pos : tl[p] = "Food"}

\* drop_food (lines 246-256).  MaxFood bounds the Food tiles lying around.
DropFood ==
    /\ pc = "idle"
    /\ Cardinality(FoodTiles(tiles)) < MaxFood
    /\ tiles' = drop_food(tiles, cursor)
    /\ event_log' = IF tiles' # tiles THEN log(event_log, tick, "Food dropped")
                    ELSE event_log
    /\ UNCHANGED <<food_stockpile, regrowth_timers, orcs, animals, tick, paused,
                   cursor, selected_orc, pc, idx, orc_positions, fp>>

Command ==
    \/ MoveCursor
    \/ TogglePause
    \/ CycleSelectedOrc
    \/ DropFood

(***************************************************************************)
(* The specification of ticks and commands interleaved on the small camp,  *)
(* over the last ticks before MaxTick.                                     *)
(***************************************************************************)
UIStart == MaxTick - 2

\* A dead orc whose grace period ends in the first tick.
Removed == [Tombstone EXCEPT !.death_tick = UIStart + 1 - TOMBSTONE_TICKS]

FoodCell == <<1, 2>>

\* An orc one step away from food dropped earlier.
Gatherer ==
    aged("Brak", 1, 3, [hunger |-> 800,
                        activity |-> GoingTo(FoodCell[1], FoodCell[2], "Looking for food"),
                        path |-> <<FoodCell>>])

\* The camp with its bush eaten earlier and food dropped at FoodCell.
UsedTiles == [CampTiles EXCEPT ![BushCell] = "DepletedBush", ![FoodCell] = "Food"]

UICamps ==
    {[tiles |-> CampTiles, regrowth_timers |-> <<>>, orcs |-> <<Removed, Forager>>,
      animals |-> <<>>],
     [tiles |-> UsedTiles,
      regrowth_timers |-> <<<<BushCell[1], BushCell[2], UIStart + 1>>>>,
      orcs |-> <<Gatherer>>, animals |-> <<>>],
     [tiles |-> CampTiles, regrowth_timers |-> <<>>, orcs |-> <<HungryHunter>>,
      animals |-> <<new_animal("Deer", 0, South)>>]}

InitUI ==
    /\ \E camp \in UICamps :
        /\ tiles = camp.tiles
        /\ regrowth_timers = camp.regrowth_timers
        /\ orcs = camp.orcs
        /\ animals = camp.animals
    /\ food_stockpile = 0
    /\ tick = UIStart
    /\ event_log = <<>>
    /\ paused = FALSE
    /\ cursor = campfire_pos
    /\ selected_orc = NoIndex
    /\ pc = "idle"
    /\ idx = 0
    /\ orc_positions = <<>>
    /\ fp = NoCall

NextUI ==
    \/ Next
    \/ Command

SpecUI == InitUI /\ [][NextUI]_vars

TileChanges == {<<"Bush", "DepletedBush">>, <<"DepletedBush", "Bush">>,
                <<"Food", "Grass">>, <<"Grass", "Food">>}

\* C13: across ticks and commands the only tile changes are Bush to
\* DepletedBush, DepletedBush to Bush, Food to Grass and Grass to Food, so
\* Rock, Water, Tree, Campfire and MeatRack tiles never change and
\* meat_rack_pos gives the same position before and after every step.
C13_TileChanges ==
    [][/\ tiles' # tiles =>
            \A p \in Pos : tiles'[p] # tiles[p] => <<tiles[p], tiles'[p]>> \in TileChanges
       /\ meat_rack_pos(tiles') = meat_rack_pos(tiles)
       /\ meat_rack_pos(tiles) = RackPos]_vars

\* The bush has grown back, the food dropped earlier is eaten and the user
\* has dropped food on another tile.
C13_Witness ==
    /\ tiles[BushCell] = "Bush"
    /\ tiles[FoodCell] = "Grass"
    /\ FoodTiles(tiles) # {}
    /\ \E i \in 1 .. Len(event_log) : event_log[i][2] = "found food and starts eating"

InGrid(x, y) == 0 <= x /\ x < MAP_WIDTH /\ 0 <= y /\ y < MAP_HEIGHT

\* C15: in every reachable state the position of every orc, of every animal
\* and of the cursor has x < MAP_WIDTH and y < MAP_HEIGHT.
C15_PositionsInGrid ==
    /\ \A i \in 1 .. Len(orcs) : InGrid(orcs[i].x, orcs[i].y)
    /\ \A i \in 1 .. Len(animals) : InGrid(animals[i].x, animals[i].y)
    /\ InGrid(cursor[1], cursor[2])

\* The cursor has been moved into a corner of the map and an orc has walked
\* to the bush on the edge of the map.
C15_Witness ==
    /\ cursor = <<MAP_WIDTH - 1, 0>>
    /\ tick > UIStart
    /\ \E i \in 1 .. Len(orcs) : orcs[i].alive /\ <<orcs[i].x, orcs[i].y>> = BushCell

\* C16: App::tick called while paused is a no-op.  A step taken between two
\* ticks while paused that is not a command is such a call: it leaves the
\* tick counter, the tiles, the stockpile, the timers, every orc, every
\* animal, the event log and the selection unchanged, and starts no phase.
C16_PausedTick ==
    [][(paused /\ pc = "idle" /\ ~Command) =>
        /\ UNCHANGED <<tick, tiles, food_stockpile, regrowth_timers, orcs, animals,
                       event_log, selected_orc>>
        /\ pc' = "idle"]_vars

\* The simulation has run, is paused between two ticks with an orc selected
\* and a tick is still to come.
C16_Witness ==
    /\ paused
    /\ pc = "idle"
    /\ tick = UIStart + 1
    /\ selected_orc # NoIndex

\* C19: after every tick and every command, also in ticks that remove dead
\* orcs, selected_orc is None or an index smaller than the length of the orc
\* collection.
C19_SelectionValid ==
    selected_orc = NoIndex \/ (0 <= selected_orc /\ selected_orc < Len(orcs))

\* The user selected the second orc of two, the grace period of the first
\* ended in the next tick, and the selection now names the orc that is left.
C19_Witness ==
    /\ pc = "idle"
    /\ tick = UIStart + 1
    /\ Len(orcs) = 1
    /\ orcs[1].name = Forager.name
    /\ selected_orc = 0
    /\ cursor = <<Forager.x, Forager.y>>

\* The age of a tombstone: the ticks since the orc died.
SinceDeath(o) == tick - o.death_tick

\* C17: a dead orc stays in the orc collection for as long as
\* tick - death_tick < 20 and is removed in the tick where
\* tick - death_tick = 20; a living orc is never removed.  The removal phase
\* leaves exactly the living orcs and the tombstones younger than 20 ticks,
\* in their order, no other step removes or reorders an orc, and no
\* tombstone older than 20 ticks is ever seen.
C17_TombstoneGrace ==
    [][/\ IF pc = "retain_orcs"
          THEN LET stays(o) == o.alive \/ SinceDeath(o) < 20
               IN  orcs' = SelectSeq(orcs, stays)
          ELSE /\ Len(orcs') >= Len(orcs)
               /\ \A i \in 1 .. Len(orcs) : orcs'[i].name = orcs[i].name
       /\ \A i \in 1 .. Len(orcs) : ~orcs[i].alive => SinceDeath(orcs[i]) <= 20]_vars

\* The removal phase is over in the tick where the tombstone turned 20 ticks
\* old: the orc that lived beside it is alone in the collection.
C17_Witness ==
    /\ pc = "retain_animals"
    /\ tick = Tombstone.death_tick + TOMBSTONE_TICKS
    /\ Len(orcs) = 1
    /\ orcs[1].name = Thirsty.name
    /\ orcs[1].alive

\* C18: after every completed tick the animal collection holds only living
\* animals: an animal killed during a tick is gone before that tick ends.
C18_NoDeadAnimals ==
    pc = "idle" => \A i \in 1 .. Len(animals) : animals[i].alive

\* A tick in which the only animal was hunted is over.
C18_Witness ==
    /\ pc = "idle"
    /\ animals = <<>>
    /\ \E i \in 1 .. Len(event_log) : event_log[i] = <<tick, "was hunted">>

(***************************************************************************)
(* The specification of the stockpile: a camp where two hungry orcs head   *)
(* to the meat rack while a third brings meat, and the sleeping clans just *)
(* before a birth check.                                                   *)
(***************************************************************************)
RaidStart == MaxTick - 2

\* A hungry orc on its way to the meat rack, or on it.
raider(name, p) ==
    aged(name, p[1], p[2],
         [hunger |-> 720,
          activity |-> GoingTo(RackPos[1], RackPos[2], "Going to stockpile"),
          path |-> IF p = RackPos THEN <<>> ELSE <<RackPos>>])

\* An orc that carries meat to the rack.
carrier(name, p) ==
    aged(name, p[1], p[2],
         [activity |-> CarryingMeat, carrying_food |-> TRUE,
          path |-> IF Distance([x |-> p[1], y |-> p[2]], RackPos) <= 1 THEN <<>>
                   ELSE <<<<RackPos[1] - 1, RackPos[2] - 1>>, RackPos>>])

\* The rack and the tiles beside it.
RackSide == {RackPos, <<RackPos[1] - 1, RackPos[2]>>, <<RackPos[1], RackPos[2] - 1>>}

InitRaid ==
    /\ tiles = CampTiles
    /\ \E a \in RackSide, b \in RackSide,
          m \in {<<RackPos[1], RackPos[2] - 1>>, <<RackPos[1] - 2, RackPos[2] - 1>>} :
        orcs \in {<<carrier("Murg", m), raider("Grok", a), raider("Brak", b)>>,
                  <<raider("Grok", a), carrier("Murg", m), raider("Brak", b)>>,
                  <<raider("Grok", a), raider("Brak", b), carrier("Murg", m)>>}
    /\ animals = <<>>
    /\ food_stockpile \in 0 .. 2
    /\ selected_orc = NoIndex
    /\ tick = RaidStart
    /\ Quiet

InitStockpile == InitRaid \/ InitBirth

SpecStockpile == InitStockpile /\ [][Next]_vars

\* The orc in turn is a GoingTo orc that stands on the meat rack.
ArrivesAtRack ==
    /\ InTurn
    /\ OrcInTurn.activity.kind = "GoingTo"
    /\ <<OrcInTurn.x, OrcInTurn.y>> = RackPos
    /\ orcs'[idx + 1].activity = Eating

\* The orc in turn is a CarryingMeat orc that stores its meat.
Delivers ==
    /\ InTurn
    /\ OrcInTurn.activity.kind = "CarryingMeat"
    /\ OrcInTurn.carrying_food
    /\ ~orcs'[idx + 1].carrying_food

\* C14: food_stockpile never goes below 0; every decrement, by an orc
\* arriving at the MeatRack or by a birth, takes 1 and happens only when
\* food_stockpile > 0 at that moment, also when several orcs head to the
\* stockpile in the same ticks; the only increments are +1 per CarryingMeat
\* delivery.
C14_Stockpile ==
    [][/\ food_stockpile >= 0
       /\ food_stockpile' >= 0
       /\ food_stockpile' < food_stockpile =>
            /\ food_stockpile > 0
            /\ food_stockpile' = food_stockpile - 1
            /\ ArrivesAtRack \/ (pc = "birth" /\ Len(orcs') = Len(orcs) + 1)
       /\ food_stockpile' > food_stockpile =>
            /\ food_stockpile' = food_stockpile + 1
            /\ Delivers]_vars

\* Two orcs came to the rack in the same ticks when it held one piece of
\* meat: one of them ate it, the other found the stockpile empty.
C14_Witness ==
    /\ pc = "idle"
    /\ food_stockpile = 0
    /\ \E i, j \in 1 .. Len(orcs) :
        /\ orcs[i].activity = Eating
        /\ <<orcs[i].x, orcs[i].y>> = RackPos
        /\ orcs[j].activity = Sleeping
        /\ <<orcs[j].x, orcs[j].y>> = RackPos
        /\ orcs[j].hunger > 700
    /\ \E i \in 1 .. Len(orcs) : orcs[i].activity = CarryingMeat

(***************************************************************************)
(* The specification of name giving: the loop of spawn_clan from a state   *)
(* in which it has placed Settled orcs, and the birth check of the         *)
(* sleeping clans.  pc = "spawn" while spawn_clan runs and "made" after.   *)
(***************************************************************************)
\* The count App::new passes to spawn_clan.
CLAN_SIZE == 5

\* Lines 84-93 of spawn_clan: the tiles the placement loop can end on.
spawn_tiles(tl, os) ==
    {p \in Pos :
        /\ p[1] \in Max(campfire_pos[1] - 3, 0) .. Max(campfire_pos[1] - 3, 0) + 6
        /\ p[2] \in Max(campfire_pos[2] - 3, 0) .. Max(campfire_pos[2] - 3, 0) + 6
        /\ is_walkable(tl, p[1], p[2])
        /\ ~\E i \in 1 .. Len(os) : os[i].x = p[1] /\ os[i].y = p[2]}

\* spawn_clan (lines 76-98): one turn of its loop, or its end.  used_names
\* holds the names of the orcs pushed so far.
SpawnClanStep ==
    /\ pc = "spawn"
    /\ IF Len(orcs) < CLAN_SIZE
       THEN /\ \E name \in pick_name({orcs[i].name : i \in 1 .. Len(orcs)}),
                  p \in spawn_tiles(tiles, orcs) :
                orcs' = Append(orcs, new_orc(name, p[1], p[2]))
            /\ pc' = pc
       ELSE /\ orcs' = orcs
            /\ pc' = "made"
    /\ UNCHANGED <<tiles, food_stockpile, regrowth_timers, animals, event_log, tick,
                   paused, cursor, selected_orc, idx, orc_positions, fp>>

\* Where the first orcs of the clan stand.
FirstTiles == <<<<1, 1>>, <<2, 2>>, <<3, 3>>, <<1, 3>>, <<3, 2>>>>

InitSpawn ==
    /\ tiles = CampTiles
    /\ orcs = [i \in 1 .. Min(Settled, CLAN_SIZE) |->
                new_orc(NamePool[i], FirstTiles[i][1], FirstTiles[i][2])]
    /\ animals = <<>>
    /\ food_stockpile = 0
    /\ tick = 0
    /\ regrowth_timers = <<>>
    /\ event_log = <<>>
    /\ paused = FALSE
    /\ cursor = campfire_pos
    /\ selected_orc = NoIndex
    /\ pc = "spawn"
    /\ idx = 0
    /\ orc_positions = <<>>
    /\ fp = NoCall

InitNames == InitSpawn \/ InitBirth

NextNames ==
    \/ SpawnClanStep
    \/ Next

SpecNames == InitNames /\ [][NextNames]_vars

\* C20: at the moment an orc is created, by spawn_clan or by check_birth,
\* its name differs from the name of every living orc in the collection.
C20_FreshName ==
    [][Len(orcs') = Len(orcs) + 1 =>
        \A i \in 1 .. Len(orcs) :
            orcs[i].alive => orcs'[Len(orcs')].name # orcs[i].name]_vars

\* An orc was born at tick 300 into a clan of 14 living orcs and a tombstone.
C20_Witness ==
    /\ pc = "idle"
    /\ tick = BIRTH_INTERVAL
    /\ Len(orcs) = MAX_CLAN_SIZE + 1
    /\ ~orcs[MAX_CLAN_SIZE].alive
    /\ orcs[Len(orcs)].alive
    /\ orcs[Len(orcs)].activity = Idle

\* C21: the number of living orcs never exceeds the maximum clan size (15):
\* the birth check adds at most one orc per call, and only when fewer than
\* 15 orcs are alive.
C21_ClanSize ==
    [][/\ Cardinality(LivingOrcs(orcs)) <= 15
       /\ Cardinality(LivingOrcs(orcs')) <= 15
       /\ pc = "birth" =>
            /\ Len(orcs') \in {Len(orcs), Len(orcs) + 1}
            /\ Len(orcs') = Len(orcs) + 1 => Cardinality(LivingOrcs(orcs)) < 15]_vars

\* The birth check of tick 300 is over for a full clan that is fed, rested
\* and has food in the stockpile: no orc was born.
C21_Witness ==
    /\ tick = BIRTH_INTERVAL
    /\ pc = "idle"
    /\ Len(orcs) = MAX_CLAN_SIZE
    /\ Cardinality(Living) = MAX_CLAN_SIZE
    /\ FedAndRested
    /\ food_stockpile > 0

(***************************************************************************)
(* The specification of the walk without a path: a thirsty orc decides to  *)
(* go to the pond on camps where rocks wall the pond in, wholly or partly, *)
(* and walks for the ticks that follow.                                    *)
(***************************************************************************)
GreedyStart == MaxTick - 3

\* The rocks around the pond: none, one on the diagonal, a closed wall.
Walls ==
    {{}, {<<1, 1>>}, {<<1, 1>>, <<1, 2>>, <<2, 1>>, <<0, 2>>, <<2, 0>>}}

walled(rocks) == [p \in Pos |-> IF p \in rocks THEN "Rock" ELSE CampTiles[p]]

InitGreedy ==
    /\ \E rocks \in Walls : tiles = walled(rocks)
    /\ \E p \in {campfire_pos, <<3, 3>>, <<0, South>>, <<4, 2>>} :
        orcs = <<aged("Grok", p[1], p[2], [thirst |-> 700])>>
    /\ animals = <<>>
    /\ food_stockpile = 0
    /\ selected_orc = NoIndex
    /\ tick = GreedyStart
    /\ Quiet

SpecGreedy == InitGreedy /\ [][Next]_vars

\* The orc in turn before and after its update.
Before == orcs[idx + 1]

After == orcs'[idx + 1]

\* No search from the orc in turn to the target of its new activity finds a path.
NoPathTo(a) ==
    \A r \in find_path(tiles, Before.x, Before.y, a.x, a.y,
                       tiles[<<a.x, a.y>>] \in {"Tree", "Bush"}) : ~r.found

\* The neighbours a greedy step towards (tx, ty) can end on.
GreedySteps(o, tx, ty) ==
    LET dx == signum(tx - o.x)
        dy == signum(ty - o.y)
    IN  {p \in {<<o.x + dx, o.y + dy>>, <<o.x + dx, o.y>>, <<o.x, o.y + dy>>} :
            /\ p # <<o.x, o.y>>
            /\ tiles[p] \notin {"Rock", "Water"}}

\* The orc in turn decides on a GoingTo activity in this step.
DecidesToGo ==
    /\ InTurn
    /\ Before.activity.kind = "Idle"
    /\ After.activity.kind = "GoingTo"

\* The orc in turn is on its way, not at its target, with no step of a path left.
OnFallback ==
    /\ InTurn
    /\ Before.activity.kind = "GoingTo"
    /\ <<Before.x, Before.y>> # <<Before.activity.x, Before.activity.y>>
    /\ ~can_follow(Before)

\* C22: when find_path finds no path for an orc's target, the cached path
\* is emptied and the activity is still set; in each following tick in
\* which the orc is not at its target it takes a greedy step to one of the
\* neighbours (sign dx, sign dy), (sign dx, 0), (0, sign dy) that is not
\* Rock or Water, or stays in place when none of them qualifies.
C22_GreedyFallback ==
    [][/\ (DecidesToGo /\ NoPathTo(After.activity)) =>
            After.path = <<>> /\ After.path_step = 0
       /\ OnFallback =>
            LET steps == GreedySteps(Before, Before.activity.x, Before.activity.y)
            IN  /\ After.activity = Before.activity
                /\ After.alive
                /\ IF steps = {} THEN <<After.x, After.y>> = <<Before.x, Before.y>>
                   ELSE <<After.x, After.y>> \in steps]_vars

\* The orc could not plan a way to the walled pond, took a greedy step
\* towards it and now stands before the wall, every neighbour towards its
\* target being Rock.
C22_Witness ==
    /\ pc = "idle"
    /\ tick = MaxTick
    /\ orcs[1].alive
    /\ orcs[1].activity.kind = "GoingTo"
    /\ orcs[1].path = <<>>
    /\ <<orcs[1].x, orcs[1].y>> = <<0, South - 1>>
    /\ GreedySteps(orcs[1], orcs[1].activity.x, orcs[1].activity.y) = {}

\* A step between two ticks that starts no tick and leaves the cursor, the
\* pause and the selection alone: of the commands, only drop_food takes it.
DropFoodStep ==
    /\ pc = "idle"
    /\ pc' = "idle"
    /\ UNCHANGED <<cursor, paused, selected_orc>>

\* C24: drop_food changes the world only when the cursor tile is Grass, and
\* then exactly that tile becomes Food (and the drop is logged); on any other
\* terrain it leaves every tile, the stockpile and the event log unchanged.
C24_DropFood ==
    [][DropFoodStep =>
        /\ tiles[cursor] = "Grass"
        /\ tiles' = [tiles EXCEPT ![cursor] = "Food"]
        /\ event_log' = log(event_log, tick, "Food dropped")
        /\ UNCHANGED <<food_stockpile, regrowth_timers, orcs, animals, tick>>]_vars

\* After a tick the user moved the cursor to the grass between the pond and
\* the bush and dropped food there: it is the only Food tile and the last
\* event of the log.
C24_Witness ==
    /\ pc = "idle"
    /\ tick = UIStart + 1
    /\ cursor = <<BushCell[1] - 1, BushCell[2]>>
    /\ FoodTiles(tiles) = {cursor}
    /\ event_log # <<>>
    /\ event_log[Len(event_log)] = <<tick, "Food dropped">>

(***************************************************************************)
(* The specification of arrivals: in one tick an orc arrives on any tile   *)
(* it can stand on, on the camp and on a camp with more water and food     *)
(* dropped by the pond, with and without meat in the stockpile.            *)
(***************************************************************************)
\* Water beside the bush and the tree and beside the meat rack, food by the pond.
WetTiles ==
    [CampTiles EXCEPT ![<<3, 0>>] = "Water",
                      ![<<RackPos[1], RackPos[2] - 1>>] = "Water",
                      ![<<PondCell[1] + 1, PondCell[2]>>] = "Food"]

InitArrive ==
    /\ tiles \in {CampTiles, WetTiles}
    /\ \E p \in Pos :
        /\ is_walkable(tiles, p[1], p[2])
        /\ orcs = <<aged("Grok", p[1], p[2],
                         [activity |-> GoingTo(p[1], p[2], "Wandering"),
                          path |-> <<p>>, path_step |-> 1])>>
    /\ animals = <<>>
    /\ food_stockpile \in 0 .. 1
    /\ selected_orc = NoIndex
    /\ tick = MaxTick - 1
    /\ Quiet

SpecArrive == InitArrive /\ [][Next]_vars

\* The orc in turn is a GoingTo orc that stands on its destination.
Arrives ==
    /\ InTurn
    /\ Before.activity.kind = "GoingTo"
    /\ <<Before.x, Before.y>> = <<Before.activity.x, Before.activity.y>>

\* One of the four orthogonal neighbours of p is Water.
BesideWater(p) ==
    \E d \in {<<0, 1>>, <<0, -1>>, <<1, 0>>, <<-1, 0>>} :
        <<p[1] + d[1], p[2] + d[2]>> \in Pos /\ tiles[<<p[1] + d[1], p[2] + d[2]>>] = "Water"

\* C25: on arrival at a GoingTo destination the terrain under the orc decides
\* in this order: Bush, the bush is depleted and the orc is Eating; Food, the
\* tile becomes Grass and the orc is Eating; Tree, Eating and no terrain
\* change; MeatRack with stockpile > 0, the stockpile loses 1 and the orc is
\* Eating; otherwise Drinking if one of the four orthogonal neighbours is
\* Water; otherwise Sleeping.  At the MeatRack with stockpile 0 the orc does
\* not eat.
C25_Arrival ==
    [][Arrives =>
        LET p == <<Before.x, Before.y>>
            t == tiles[p]
        IN  /\ <<After.x, After.y>> = p
            /\ IF t = "Bush"
               THEN /\ After.activity = Eating
                    /\ tiles' = [tiles EXCEPT ![p] = "DepletedBush"]
                    /\ regrowth_timers' =
                        Append(regrowth_timers, <<p[1], p[2], tick + REGROW_DELAY>>)
                    /\ food_stockpile' = food_stockpile
               ELSE IF t = "Food"
               THEN /\ After.activity = Eating
                    /\ tiles' = [tiles EXCEPT ![p] = "Grass"]
                    /\ UNCHANGED <<food_stockpile, regrowth_timers>>
               ELSE IF t = "Tree"
               THEN /\ After.activity = Eating
                    /\ UNCHANGED <<tiles, food_stockpile, regrowth_timers>>
               ELSE IF t = "MeatRack" /\ food_stockpile > 0
               THEN /\ After.activity = Eating
                    /\ food_stockpile' = food_stockpile - 1
                    /\ UNCHANGED <<tiles, regrowth_timers>>
               ELSE /\ After.activity = IF BesideWater(p) THEN Drinking ELSE Sleeping
                    /\ UNCHANGED <<tiles, food_stockpile, regrowth_timers>>]_vars

\* The orc arrived at the meat rack beside the water when the stockpile was
\* empty: it drinks and has not eaten.
C25_Witness ==
    /\ pc = "idle"
    /\ tick = MaxTick
    /\ tiles = WetTiles
    /\ <<orcs[1].x, orcs[1].y>> = RackPos
    /\ orcs[1].activity = Drinking
    /\ food_stockpile = 0

(***************************************************************************)
(* The specification of the critical decisions that find nothing: one tick *)
(* of one Idle orc over ranges of its needs, on the camp without its pond  *)
(* and on a camp without pond, bush and tree, with and without a deer.     *)
(***************************************************************************)
BarrenTiles == [p \in Pos |-> IF CampTiles[p] \in {"Water", "Bush", "Tree"}
                              THEN "Grass" ELSE CampTiles[p]]

InitCritical ==
    /\ tiles \in {DryTiles, BarrenTiles}
    /\ \E h \in DecideHunger, t \in DecideThirst, e \in DecideEnergy,
          hl \in {v \in DecideHealth : v < 200} :
        orcs = <<aged("Grok", 1, 2, [hunger |-> h, thirst |-> t, energy |-> e,
                                     health |-> hl])>>
    /\ animals \in {<<>>, <<new_animal("Deer", 0, South)>>}
    /\ food_stockpile = 0
    /\ selected_orc = NoIndex
    /\ tick = MaxTick - 1
    /\ Quiet

SpecCritical == InitCritical /\ [][Next]_vars

\* What decide_action is called with for the orc in turn.
Deciding ==
    [o |-> OrcInTurn, tl |-> tiles, sp |-> food_stockpile, tm |-> regrowth_timers,
     an |-> animals, lg |-> event_log]

\* The critical branch the needs of the orc in turn select finds nothing.
LookupFails ==
    LET o == OrcInTurn
    IN  /\ InTurn
        /\ o.activity = Idle
        /\ o.health < 200
        /\ IF o.thirst > o.hunger /\ o.thirst > 1000 - o.energy
           THEN find_water_adjacent(tiles, o.x, o.y) = NoPos
           ELSE /\ o.hunger > 1000 - o.energy
                /\ find_food_target(o, tiles, food_stockpile, animals) = NoTarget

Desperate ==
    {"desperately needs water!", "desperately needs food!", "desperately needs rest!"}

\* C26: in decide_action with health < 20, when the lookup of the selected
\* critical branch fails (thirst dominant and no water-adjacent tile, or
\* hunger dominant and no food target), no Desperate activity is set and
\* nothing desperate is logged: the orc leaves the call as priorities 2 to 6
\* leave it, in the same tick, and not by the "Desperate for sleep" branch.
C26_FallThrough ==
    [][LookupFails =>
        /\ After.activity.reason \notin
            {"Desperate for water", "Desperate for sleep"}
        /\ \A i \in 1 .. Len(event_log') :
            event_log'[i][1] = tick => event_log'[i][2] \notin Desperate
        /\ \E r \in decide_routine(Deciding, tick) :
            r.o = After /\ r.lg = event_log']_vars

\* A dying, tired orc whose thirst dominates found no water on the dry camp
\* and went on to priority 4: it heads for the campfire to sleep.
C26_Witness ==
    /\ pc = "idle"
    /\ tick = MaxTick
    /\ tiles = DryTiles
    /\ orcs[1].alive
    /\ orcs[1].health < 200
    /\ orcs[1].thirst > orcs[1].hunger
    /\ orcs[1].thirst > 1000 - orcs[1].energy
    /\ orcs[1].activity.reason = "Going to sleep"

(***************************************************************************)
(* The specification of the food lookups: one tick of a hungry Idle orc,   *)
(* alone or after a hunter, over its position, the stockpile, two camps    *)
(* and the animals about.                                                  *)
(***************************************************************************)
HungryAt == {<<0, South>>, <<2, 3>>, <<MAP_WIDTH - 1, 1>>}

Herds ==
    {<<>>,
     <<new_animal("Boar", MAP_WIDTH - 1, South)>>,
     <<new_animal("Boar", 0, South - 1), new_animal("Boar", MAP_WIDTH - 1, 2)>>}

InitFood ==
    /\ tiles \in {WetTiles, BarrenTiles}
    /\ food_stockpile \in 0 .. 1
    /\ animals \in Herds
    /\ \E p \in HungryAt, hunted \in BOOLEAN :
        LET hungry == aged("Brak", p[1], p[2], [hunger |-> 800])
        IN  orcs = IF hunted /\ Len(animals) = 2 THEN <<Hunter, hungry>> ELSE <<hungry>>
    /\ selected_orc = NoIndex
    /\ tick = MaxTick - 1
    /\ Quiet

SpecFood == InitFood /\ [][Next]_vars

TerrainFood == {p \in Pos : tiles[p] \in {"Bush", "Food", "Tree"}}

LivingAnimals == {i \in 1 .. Len(animals) : animals[i].alive}

\* The living animals and the food tiles at the least Manhattan distance from o.
NearestAnimals(o) ==
    {i \in LivingAnimals :
        \A j \in LivingAnimals :
            Distance(o, <<animals[i].x, animals[i].y>>)
                <= Distance(o, <<animals[j].x, animals[j].y>>)}

NearestFood(o) ==
    {p \in TerrainFood : \A q \in TerrainFood : Distance(o, p) <= Distance(o, q)}

\* The targets the resolution order allows for o in the current state.
Resolved(o) ==
    IF food_stockpile > 0 /\ tiles[RackPos] = "MeatRack"
    THEN {GoingTo(RackPos[1], RackPos[2], "Going to stockpile")}
    ELSE IF /\ LivingAnimals # {}
            /\ \/ TerrainFood = {}
               \/ \E i \in NearestAnimals(o) :
                    Distance(o, <<animals[i].x, animals[i].y>>) < HUNT_RANGE
    THEN {Hunting(i - 1) : i \in NearestAnimals(o)}
    ELSE IF TerrainFood # {}
    THEN {GoingTo(p[1], p[2], "Looking for food") : p \in NearestFood(o)}
    ELSE {NoTarget}

\* The orc in turn is Idle, healthy and not thirsty, and hungry: decide_action
\* comes to priority 3 with the result of find_food_target.
LooksForFood ==
    /\ InTurn
    /\ Before.activity = Idle
    /\ OrcInTurn.health >= 200
    /\ OrcInTurn.thirst <= 600
    /\ OrcInTurn.hunger > 700

\* C27: find_food_target resolves in this order: the meat rack when the
\* stockpile is not empty and the rack exists; otherwise the nearest living
\* animal, to hunt, when one lives and it is closer than the hunting range or
\* there is no Bush, Food or Tree tile at all; otherwise the nearest of the
\* nearest Bush, Food and Tree by Manhattan distance; and no target only when
\* there is no stockpile, no terrain food and no living animal.  The hungry
\* orc leaves the tick with the target as its activity.
C27_FoodTarget ==
    [][LooksForFood =>
        /\ find_food_target(OrcInTurn, tiles, food_stockpile, animals)
            \in Resolved(OrcInTurn)
        /\ (NoTarget \in Resolved(OrcInTurn)) =
            (food_stockpile = 0 /\ TerrainFood = {} /\ LivingAnimals = {})
        /\ NoTarget \notin Resolved(OrcInTurn) => After.activity \in Resolved(OrcInTurn)]_vars

\* The hungry orc went for terrain food although a boar lives, the boar being
\* exactly the hunting range away and the stockpile empty.
C27_Witness ==
    /\ pc = "idle"
    /\ tick = MaxTick
    /\ food_stockpile = 0
    /\ LivingAnimals # {}
    /\ \E k \in 1 .. Len(orcs) :
        /\ orcs[k].activity.reason = "Looking for food"
        /\ \A i \in NearestAnimals(orcs[k]) :
            Distance(orcs[k], <<animals[i].x, animals[i].y>>) = HUNT_RANGE

(***************************************************************************)
(* The specification of two hunters after the same boar: the one beside it *)
(* kills it when it stays in reach, the other hunts an animal that may be  *)
(* dead, or gone from the collection, when its turn comes.                 *)
(***************************************************************************)
HuntStart == MaxTick - 2

chaser(target_idx) == aged("Brak", 3, 2, [activity |-> Hunting(target_idx)])

InitHunt ==
    /\ tiles = CampTiles
    /\ \E t \in 0 .. 1 : orcs \in {<<Hunter, chaser(t)>>, <<chaser(t), Hunter>>}
    /\ animals \in {<<new_animal("Boar", 0, South)>>,
                    <<new_animal("Boar", 0, South), new_animal("Boar", MAP_WIDTH - 1, 2)>>}
    /\ food_stockpile = 0
    /\ selected_orc = NoIndex
    /\ tick = HuntStart
    /\ Quiet

SpecHunt == InitHunt /\ [][Next]_vars

\* The orc in turn hunts an animal that is dead or not in the collection.
TargetGone ==
    /\ InTurn
    /\ Before.activity.kind = "Hunting"
    /\ \/ Before.activity.target_idx >= Len(animals)
       \/ ~animals[Before.activity.target_idx + 1].alive

\* C28: an orc in Hunting{target_idx} whose target_idx is not smaller than
\* the length of the animal collection, or whose indexed animal is dead,
\* becomes Idle in that tick without moving, without killing anything and
\* without changing the world.
C28_TargetGone ==
    [][TargetGone =>
        /\ After.activity = Idle
        /\ After.x = Before.x
        /\ After.y = Before.y
        /\ animals' = animals
        /\ UNCHANGED <<tiles, food_stockpile, regrowth_timers>>]_vars

\* The hunter killed the only boar in the first tick; the other orc, whose
\* turn came after the hunter's, found its target dead and is Idle where it
\* stood.
C28_Witness ==
    /\ pc = "idle"
    /\ tick = MaxTick
    /\ animals = <<>>
    /\ \E i \in 1 .. Len(event_log) : event_log[i] = <<HuntStart + 1, "was hunted">>
    /\ orcs[1].name = "Grok"
    /\ orcs[2].activity = Idle
    /\ <<orcs[2].x, orcs[2].y>> = <<chaser(0).x, chaser(0).y>>
    /\ orcs[2].idle_ticks = 1

(***************************************************************************)
(* The specification of the last tick of an orc: a starved, parched and    *)
(* worn-out orc, whose health is at or just above what the tick takes, in  *)
(* the middle of each activity that would act on the world.                *)
(***************************************************************************)
LastHealth == {20, 60, 70}

Busy ==
    {[activity |-> Idle],
     [activity |-> Hunting(0)],
     [activity |-> CarryingMeat, carrying_food |-> TRUE],
     [activity |-> GoingTo(BushCell[1], BushCell[2], "Looking for food")],
     [activity |-> GoingTo(RackPos[1], RackPos[2], "Going to stockpile")],
     [activity |-> Eating],
     [activity |-> Sleeping]}

dying(p, hl, busy) ==
    aged("Grok", p[1], p[2],
         [f \in {"hunger", "thirst", "energy", "health"} \cup DOMAIN busy |->
            IF f \in DOMAIN busy THEN busy[f]
            ELSE IF f = "energy" THEN 20
            ELSE IF f = "health" THEN hl
            ELSE 1000])

InitDeath ==
    /\ tiles = CampTiles
    /\ \E p \in {BushCell, RackPos, <<1, South>>}, hl \in LastHealth, busy \in Busy :
        orcs = <<dying(p, hl, busy)>>
    /\ animals = <<new_animal("Boar", 0, South)>>
    /\ food_stockpile = 1
    /\ selected_orc = NoIndex
    /\ tick = MaxTick - 1
    /\ Quiet

SpecDeath == InitDeath /\ [][Next]_vars

\* The needs update of this tick takes the last health of the orc in turn.
Dies ==
    /\ pc = "orcs"
    /\ idx < Len(orcs)
    /\ Before.alive
    /\ OrcInTurn.health <= 0

\* C29: in the tick in which the health of an orc reaches 0, the orc does
\* nothing after the needs update: its position and its activity are
\* unchanged, it decides nothing, and it changes no tile, no animal and not
\* the stockpile; only alive, death_tick (set to the current tick) and the
\* event log, which gains the death, change.
C29_DeathTick ==
    [][Dies =>
        /\ After = [OrcInTurn EXCEPT !.alive = FALSE, !.death_tick = tick]
        /\ After.x = Before.x
        /\ After.y = Before.y
        /\ After.activity = Before.activity
        /\ event_log' = log(event_log, tick, "has died!")
        /\ animals' = animals
        /\ UNCHANGED <<tiles, food_stockpile, regrowth_timers>>]_vars

\* The orc died on the bush it had come to eat from: the bush is whole, the
\* boar lives and the stockpile is as it was.
C29_Witness ==
    /\ pc = "idle"
    /\ tick = MaxTick
    /\ ~orcs[1].alive
    /\ orcs[1].death_tick = MaxTick
    /\ <<orcs[1].x, orcs[1].y>> = BushCell
    /\ orcs[1].activity = GoingTo(BushCell[1], BushCell[2], "Looking for food")
    /\ tiles[BushCell] = "Bush"
    /\ event_log[Len(event_log)] = <<MaxTick, "has died!">>

(***************************************************************************)
(* The specification of the end of a tick, from the removal of the dead    *)
(* animals on, over the tick and over herds about the respawn floor, some  *)
(* of whose animals were killed in the tick.                               *)
(***************************************************************************)
RespawnTicks ==
    {RESPAWN_INTERVAL - 1, RESPAWN_INTERVAL, RESPAWN_INTERVAL + 1, 2 * RESPAWN_INTERVAL}

HerdSizes == {0, RESPAWN_FLOOR - 1, RESPAWN_FLOOR, RESPAWN_FLOOR + 1}

\* A herd of n animals along the south edge, the first `dead` of them killed.
Herd(n, dead) ==
    [i \in 1 .. n |->
        [new_animal(IF i % 2 = 0 THEN "Deer" ELSE "Boar", i % MAP_WIDTH, South)
            EXCEPT !.alive = i > dead]]

InitRespawn ==
    /\ tiles = CampTiles
    /\ \E n \in HerdSizes, dead \in 0 .. 2 : dead <= n /\ animals = Herd(n, dead)
    /\ tick \in RespawnTicks
    /\ orcs = <<>>
    /\ food_stockpile = 0
    /\ regrowth_timers = <<>>
    /\ event_log = <<>>
    /\ paused = FALSE
    /\ cursor = campfire_pos
    /\ selected_orc = NoIndex
    /\ pc = "retain_animals"
    /\ idx = 0
    /\ orc_positions = <<>>
    /\ fp = NoCall

NextRespawn == RetainAnimals \/ Respawn \/ Regrowth \/ Birth

SpecRespawn == InitRespawn /\ [][NextRespawn]_vars

\* The animals try_respawn has pushed in this step.
Respawned == SubSeq(animals', Len(animals) + 1, Len(animals'))

\* C30: try_respawn adds animals only in ticks with tick % 200 = 0 and only
\* when fewer than 12 animals are alive; it then adds at most 3 animals, each
\* alive, on a walkable tile at a Manhattan distance from the campfire above
\* the respawn distance; in every other case the animal collection is
\* unchanged.
C30_Respawn ==
    [][pc = "respawn" =>
        /\ Len(animals') >= Len(animals)
        /\ SubSeq(animals', 1, Len(animals)) = animals
        /\ Len(Respawned) <= MAX_RESPAWN
        /\ \A i \in 1 .. Len(Respawned) :
            /\ Respawned[i].alive
            /\ is_walkable(tiles, Respawned[i].x, Respawned[i].y)
            /\ manhattan(campfire_pos[1], campfire_pos[2],
                         Respawned[i].x, Respawned[i].y) > RESPAWN_DISTANCE
        /\ (tick % RESPAWN_INTERVAL # 0
            \/ Cardinality({i \in 1 .. Len(animals) : animals[i].alive}) >= RESPAWN_FLOOR)
            => animals' = animals]_vars

\* Two animals of a herd of thirteen were killed in tick 200: the eleven
\* left are below the floor and three animals have joined them.
C30_Witness ==
    /\ pc = "regrowth"
    /\ tick = RESPAWN_INTERVAL
    /\ Len(animals) = RESPAWN_FLOOR - 1 + MAX_RESPAWN
    /\ \A i \in 1 .. Len(animals) : animals[i].alive
    /\ \E i \in 1 .. Len(animals) : <<animals[i].x, animals[i].y>> = <<1, 1>>

\* The living orcs that hunt a living animal, by their index in the collection.
Hunts ==
    {k \in 1 .. Len(orcs) :
        /\ orcs[k].alive
        /\ orcs[k].activity.kind = "Hunting"
        /\ target_alive(animals, orcs[k].activity.target_idx)}

\* C31: while an orc is in Hunting{target_idx}, target_idx designates the
\* same animal from one tick to the next for as long as that animal is alive,
\* also when other animals are killed, removed from the collection or
\* respawned in between: no step that changes the animal collection moves
\* the living target of a hunting orc to another index or past the end.
C31_SameTarget ==
    [][\A k \in Hunts :
        LET i == orcs[k].activity.target_idx
        IN  /\ i < Len(animals')
            /\ pc = "retain_animals" => \A j \in 1 .. i : animals[j].alive]_vars

(***************************************************************************)
(* The specification of the way to the water: a thirsty Idle orc about the *)
(* pond, on the camp and on a camp with a tree on the bank of the pond,    *)
(* over the ticks it takes to decide, to walk and to arrive.               *)
(***************************************************************************)
DrinkStart == MaxTick - 4

BankCell == <<PondCell[1] + 1, PondCell[2]>>

BankTiles == [CampTiles EXCEPT ![BankCell] = "Tree"]

ThirstyAt == {<<1, 1>>, BushCell, <<3, 0>>, <<0, 2>>}

InitDrink ==
    /\ tiles \in {CampTiles, BankTiles}
    /\ \E p \in ThirstyAt : orcs = <<aged("Grok", p[1], p[2], [thirst |-> 700])>>
    /\ animals = <<>>
    /\ food_stockpile = 0
    /\ selected_orc = NoIndex
    /\ tick = DrinkStart
    /\ Quiet

SpecDrink == InitDrink /\ [][Next]_vars

\* The orc in turn stands on the tile it chose to drink from.
ReachesWater ==
    /\ InTurn
    /\ Before.activity.kind = "GoingTo"
    /\ Before.activity.reason = "Going to drink"
    /\ <<Before.x, Before.y>> = <<Before.activity.x, Before.activity.y>>

\* C32: a living orc that chose "Going to drink" (thirst > 60 and a tile
\* beside the water was found) and has reached that tile enters Drinking on
\* arrival, so that it does not go through other activities at that tile.
C32_DrinksOnArrival ==
    [][ReachesWater => After.activity = Drinking]_vars

\* C33: for every living orc in every reachable state, carrying_food is
\* true if and only if its activity is CarryingMeat; an Idle orc therefore
\* never has carrying_food set, and decide_action never comes to its
\* "Carrying food" branch (priority 5).
C33_CarryingMeat ==
    \A k \in 1 .. Len(orcs) :
        orcs[k].alive => (orcs[k].carrying_food <=> orcs[k].activity = CarryingMeat)

\* The hunter caught the deer, carried the meat to the rack and stored it:
\* it is Idle and carries nothing.
C33_Witness ==
    /\ pc = "idle"
    /\ \E i \in 1 .. Len(event_log) : event_log[i][2] = "caught an animal"
    /\ \E i \in 1 .. Len(event_log) : event_log[i][2] = "stored meat"
    /\ orcs[1].alive
    /\ orcs[1].activity.kind \in {"Idle", "GoingTo"}
    /\ ~orcs[1].carrying_food

(***************************************************************************)
(* The specification of every way an orc comes to a tile: the spawn of the *)
(* clan and the births, the clans of Spec on their paths, and the walk     *)
(* without a path around the walled pond.                                  *)
(***************************************************************************)
InitWalk == InitNames \/ InitGreedy \/ Init

SpecWalk == InitWalk /\ [][NextNames]_vars

Dry(p) == tiles[p] \notin {"Rock", "Water"}

\* C34: no orc ever occupies a Rock or Water tile: in every reachable state
\* every orc, however it came to its tile (spawn, birth, path or greedy
\* step), stands on a tile that is neither Rock nor Water, and so is every
\* waypoint of the path it holds, the goal included.
C34_NeverOnRockOrWater ==
    \A k \in 1 .. Len(orcs) :
        /\ Dry(<<orcs[k].x, orcs[k].y>>)
        /\ \A i \in 1 .. Len(orcs[k].path) : Dry(orcs[k].path[i])

\* On the camp whose pond is walled in by rocks, the orc has walked without
\* a path and stands beside the wall.
C34_Witness ==
    /\ pc = "idle"
    /\ tick = MaxTick
    /\ tiles[<<1, 1>>] = "Rock"
    /\ tiles[<<1, 2>>] = "Rock"
    /\ orcs[1].activity.reason = "Going to drink"
    /\ orcs[1].path = <<>>
    /\ <<orcs[1].x, orcs[1].y>> \in {<<2, 2>>, <<1, 3>>, <<2, 3>>, <<0, 3>>, <<3, 2>>}
    /\ <<orcs[1].x, orcs[1].y>> # campfire_pos

(***************************************************************************)
(* The specification of the steps of the orcs: the clans of Spec, the two  *)
(* hunters and the walk around the walled pond.                            *)
(***************************************************************************)
InitStep == Init \/ InitHunt \/ InitGreedy

SpecStep == InitStep /\ [][Next]_vars

\* C35: in one tick the position of a living orc changes by at most 1 in x
\* and at most 1 in y: its update moves it by one step of its path or by one
\* greedy step, and a cached path is followed only from the tile before its
\* first waypoint or from its own last waypoint, so that a path gone stale
\* (after a kill, a retargeted hunt or a greedy step) never makes the orc
\* jump.
C35_OneStep ==
    [][(pc = "orcs" /\ idx < Len(orcs)) =>
        /\ abs_diff(After.x, Before.x) <= 1
        /\ abs_diff(After.y, Before.y) <= 1
        /\ \A k \in 1 .. Len(orcs) :
            k # idx + 1 => <<orcs'[k].x, orcs'[k].y>> = <<orcs[k].x, orcs[k].y>>
        /\ (After.path = Before.path /\ After.path_step = Before.path_step + 1
                /\ Before.path_step > 0)
            => <<Before.x, Before.y>> = Before.path[Before.path_step]]_vars

\* The second hunter has taken the second step of the path it planned to its
\* boar in the tick before, from the first waypoint of that path.
C35_Witness ==
    /\ pc = "idle"
    /\ tick = MaxTick
    /\ \E k \in 1 .. Len(orcs) :
        /\ orcs[k].name = "Brak"
        /\ orcs[k].activity.kind = "Hunting"
        /\ orcs[k].path_step = 2
        /\ Len(orcs[k].path) > 2
        /\ <<orcs[k].x, orcs[k].y>> = orcs[k].path[2]

(***************************************************************************)
(* The specification of the regrowth timers: a camp whose bush was eaten   *)
(* one delay before the first tick and grows back in it, a second bush,    *)
(* and a hungry Idle orc that eats from whichever bush it finds.           *)
(***************************************************************************)
RegrowStart == MaxTick - 4

SecondBush == <<0, 3>>

RegrowTiles == [CampTiles EXCEPT ![BushCell] = "DepletedBush", ![SecondBush] = "Bush"]

HungryOrcAt == {<<2, 1>>, <<1, 1>>, <<0, 2>>, <<1, 3>>}

\* A hungry orc at the pond whose thirst is quenched in the first tick.
LastSips ==
    aged("Grok", PondCell[1] + 1, PondCell[2],
         [hunger |-> 750, thirst |-> 150, activity |-> Drinking])

\* The cursor rests on a bush or on the grass beside the first bush.
DropAt == {BushCell, SecondBush, <<BushCell[1], BushCell[2] + 1>>}

InitRegrow ==
    /\ \/ /\ tiles = RegrowTiles
          /\ regrowth_timers = <<<<BushCell[1], BushCell[2], RegrowStart + 1>>>>
       \/ /\ tiles = CampTiles
          /\ regrowth_timers = <<>>
    /\ \/ \E p \in HungryOrcAt, h \in {750, 950} :
            orcs = <<aged("Grok", p[1], p[2], [hunger |-> h])>>
       \/ orcs = <<LastSips>>
    /\ animals = <<>>
    /\ food_stockpile = 0
    /\ selected_orc = NoIndex
    /\ tick = RegrowStart
    /\ event_log = <<>>
    /\ paused = FALSE
    /\ cursor \in DropAt
    /\ pc = "idle"
    /\ idx = 0
    /\ orc_positions = <<>>
    /\ fp = NoCall

\* The ticks, and food dropped at the cursor between them.
NextRegrow ==
    \/ Next
    \/ DropFood

SpecRegrow == InitRegrow /\ [][NextRegrow]_vars

\* The tiles of the pending regrowth timers.
TimerTiles == {<<regrowth_timers[i][1], regrowth_timers[i][2]>> :
                    i \in 1 .. Len(regrowth_timers)}

\* C36: between ticks the DepletedBush tiles are exactly the tiles with a
\* pending regrowth timer, no tile has two pending timers, and no timer is
\* due at or before the tick just swept; every timer is due within the
\* regrowth delay, so that every depleted bush grows back.
C36_Timers ==
    pc = "idle" =>
        /\ {p \in DOMAIN tiles : tiles[p] = "DepletedBush"} = TimerTiles
        /\ Cardinality(TimerTiles) = Len(regrowth_timers)
        /\ \A i \in 1 .. Len(regrowth_timers) :
            /\ regrowth_timers[i][3] > tick
            /\ regrowth_timers[i][3] <= tick + REGROW_DELAY

\* The bush that grew back in the first tick has been eaten again, and the
\* second bush is eaten too or still stands.
C36_Witness ==
    /\ pc = "idle"
    /\ tiles[BushCell] = "DepletedBush"
    /\ tiles[SecondBush] \in {"Bush", "DepletedBush"}
    /\ regrowth_timers # <<>>
    /\ \A i \in 1 .. Len(regrowth_timers) :
        regrowth_timers[i][3] > RegrowStart + REGROW_DELAY

(***************************************************************************)
(* The specification of an orc at rest: one orc that has reached the tile  *)
(* it went to and begins to eat, to drink or to sleep in the first tick,   *)
(* by day and by night, over the ticks the longest rest takes.             *)
(***************************************************************************)
\* The day begins a hundred ticks before MaxTick; the runs by day stop at
\* RestDayStop, those by night at MaxTick.
RestDawn == MaxTick - 100

RestSpan == 32

RestDayStop == RestDawn + RestSpan

\* The orc about to eat from the bush, hungry to the limit or less.
Diner(h) ==
    aged("Grok", BushCell[1], BushCell[2],
         [hunger |-> h,
          activity |-> GoingTo(BushCell[1], BushCell[2], "Looking for food")])

\* The orc about to drink beside the pond.
Parched(t) ==
    aged("Grok", PondCell[1] + 1, PondCell[2],
         [thirst |-> t,
          activity |-> GoingTo(PondCell[1] + 1, PondCell[2], "Going to drink")])

\* The orc about to lie down beside the campfire, its energy spent.
Weary(en) ==
    aged("Grok", campfire_pos[1], campfire_pos[2] + 1,
         [energy |-> en,
          activity |-> GoingTo(campfire_pos[1], campfire_pos[2] + 1, "Going to sleep")])

\* Each orc starts so late that its longest rest ends with the run.
Resters ==
    {[orc |-> Diner(h), before |-> 8] : h \in {1000, 850}}
        \cup {[orc |-> Parched(t), before |-> 6] : t \in {1000, 800}}
        \cup {[orc |-> Weary(en), before |-> RestSpan - 1] : en \in {0, 4, 40}}

InitRest ==
    /\ tiles = CampTiles
    /\ \E r \in Resters, stop \in {RestDayStop, MaxTick} :
        /\ orcs = <<r.orc>>
        /\ tick = stop - r.before
    /\ animals = <<>>
    /\ food_stockpile = 0
    /\ selected_orc = NoIndex
    /\ Quiet

NextRest == Next /\ tick' # RestDayStop + 1

SpecRest == InitRest /\ [][NextRest]_vars

EatingStarts ==
    {"found berries and starts eating", "found food and starts eating",
     "forages from a tree", "takes food from stockpile", "caught an animal"}

\* The orc began a rest with one of the messages fewer than n ticks ago.
Began(messages, n) ==
    \E i \in 1 .. Len(event_log) :
        /\ event_log[i][2] \in messages
        /\ tick - event_log[i][1] < n

\* C37: an orc that began to eat is Idle or dead at most 7 ticks later, one
\* that began to drink at most 5 ticks later and one that lay down to sleep
\* at most 30 ticks later; the update of a living orc that eats, drinks or
\* sleeps leaves it in that activity or Idle.
C37_RestEnds ==
    [][/\ (pc = "orcs" /\ idx < Len(orcs) /\ Before.alive
            /\ Before.activity.kind \in {"Eating", "Drinking", "Sleeping"}) =>
            After.activity.kind \in {Before.activity.kind, "Idle"}
       /\ \A k \in 1 .. Len(orcs') :
            (pc' = "idle" /\ orcs'[k].alive) =>
                /\ orcs'[k].activity.kind = "Eating" => Began(EatingStarts, 7)'
                /\ orcs'[k].activity.kind = "Drinking" => Began({"drinks water"}, 5)'
                /\ orcs'[k].activity.kind = "Sleeping" =>
                        Began({"lies down to sleep by the fire"}, 30)']_vars

\* The orc that lay down with no energy left woke up 30 ticks later.
C37_Witness ==
    /\ pc = "idle"
    /\ Len(orcs) = 1
    /\ orcs[1].alive
    /\ orcs[1].activity.kind = "Idle"
    /\ Len(event_log) >= 2
    /\ event_log[Len(event_log)] = <<tick, "woke up, feeling rested">>
    /\ \E i \in 1 .. Len(event_log) :
        event_log[i] = <<tick - 30, "lies down to sleep by the fire">>

\* C38: between ticks every orc is alive exactly when its death_tick is
\* unset, a living orc has health above zero, a dead orc has health zero,
\* and a death_tick that is set is not later than the current tick.
C38_AliveAndHealth ==
    pc = "idle" =>
        \A k \in 1 .. Len(orcs) :
            /\ orcs[k].alive <=> orcs[k].death_tick = NoIndex
            /\ orcs[k].alive => orcs[k].health > 0
            /\ ~orcs[k].alive => orcs[k].health = 0
            /\ orcs[k].death_tick # NoIndex => orcs[k].death_tick <= tick

\* A tick after the starving orc died beside the sleeper, which lives on.
C38_Witness ==
    /\ pc = "idle"
    /\ Len(orcs) = 2
    /\ ~orcs[1].alive
    /\ orcs[1].death_tick > StartTick
    /\ orcs[1].death_tick < tick
    /\ orcs[2].alive
    /\ orcs[2].health > 0

(***************************************************************************)
(* The specification of one find_path call among trees: the grids have     *)
(* trees and rocks on some of the tiles about the origin; a rock takes the *)
(* tile that is drawn as both.                                             *)
(***************************************************************************)
TreeCells == {<<2, 1>>, <<1, 2>>, <<1, 1>>}

\* The rocks can wall the origin in, so that a search from it finds no way.
RockCells == {<<1, 0>>, <<0, 1>>, <<1, 1>>}

TreeGrid(trees, rocks) ==
    [p \in Pos |->
        IF p \in rocks THEN "Rock"
        ELSE IF p \in trees THEN "Tree"
        ELSE BaseTiles[p]]

InitTrees ==
    /\ \E trees \in SUBSET TreeCells, rocks \in SUBSET RockCells :
        tiles = TreeGrid(trees, rocks)
    /\ fp = NoCall
    /\ food_stockpile = 0
    /\ regrowth_timers = <<>>
    /\ orcs = <<>>
    /\ animals = <<>>
    /\ event_log = <<>>
    /\ tick = 0
    /\ paused = FALSE
    /\ cursor = campfire_pos
    /\ selected_orc = NoIndex
    /\ pc = "idle"
    /\ idx = 0
    /\ orc_positions = <<>>

SpecTrees == InitTrees /\ [][NextPath]_vars

\* The call of find_path with the other value of allow_tree.
OtherFlag(st) == [st EXCEPT !.allow_tree = ~@]

\* C39: the outcome of find_path does not depend on allow_tree: every
\* iteration of the search does the same with either value, and the result
\* returned with one value is a result of the call with the other.
C39_AllowTree ==
    /\ fp.pc = "loop" =>
        /\ PopCandidates(OtherFlag(fp)) = PopCandidates(fp)
        /\ \A current \in PopCandidates(fp) :
            find_path_iter(tiles, OtherFlag(fp), current)
                = OtherFlag(find_path_iter(tiles, fp, current))
    /\ fp.pc = "done" =>
        [found |-> fp.result = "Some", path |-> fp.path]
            \in find_path(tiles, fp.sx, fp.sy, fp.gx, fp.gy, ~fp.allow_tree)

\* A path found without allow_tree that leads across the tree.
C39_Witness ==
    /\ Returned
    /\ ~fp.allow_tree
    /\ Len(fp.path) >= 2
    /\ \E i \in 1 .. Len(fp.path) - 1 : tiles[fp.path[i]] = "Tree"

====
